---- MODULE Spec2Model ----
(***************************************************************************)
(* Inventory reservation and checkout engine of the shop backend           *)
(* (lld/store/inventory.go): PostgresStore.AddToCart, RemoveFromCart,      *)
(* Checkout and UpdateStock running in concurrent goroutines against one   *)
(* PostgreSQL database (READ COMMITTED, row-level locks), serialised per   *)
(* user by the process-local mutex registry (lockForUser).                 *)
(*                                                                         *)
(* Every SQL statement of a handler is one step.  A transaction's writes   *)
(* are kept in a private overlay (tx[w]) until COMMIT applies them to the  *)
(* committed database (db); ROLLBACK discards them.  A statement that      *)
(* needs a row lock held by another transaction is not enabled (it waits). *)
(* Every statement may also fail with a store error.                       *)
(***************************************************************************)
EXTENDS Integers, Sequences, FiniteSets, TLC

\* ------------------------------------------------------------------ bounds
Workers == {"w1", "w2"}            \* concurrent request goroutines
Users == {"u1", "u2"}              \* cart owners (user_id)
ProductIDs == {1, 2}               \* rows of table products
ArgProductIDs == ProductIDs \cup {3}   \* ids an admin may pass; 3 has no row
MaxQty == 3                        \* callers pass qty 0 (invalid), MaxQty - 1 or MaxQty
MaxStock == 5                      \* admins pass newStock -1 (invalid), 0 or MaxStock
MaxOrderID == 2                    \* values the orders id sequence may hand out
MaxPrice == 2                      \* prices are 1..MaxPrice

Quantities == {0, MaxQty - 1, MaxQty}
StockArgs == {-1, 0, MaxStock}
Prices == 1..MaxPrice

\* stock the migration seeds: UPDATE products SET stock = 5 / 3 WHERE id = 1 / 2
SeedStock == (1 :> 5) @@ (2 :> 3)

\* ------------------------------------------------------------------ errors
OK == "ok"
ErrInvalidQty == "quantity must be > 0"
ErrNegativeStock == "stock cannot be negative"
ErrInsufficientStock == "insufficient stock"
ErrNoRows == "sql: no rows in result set"
ErrCartEmpty == "cart empty"
StoreError == "store error"

\* ------------------------------------------------------------------- state
VARIABLES
    db,         \* committed tables: products(stock, price), carts, cart_items, orders, order_items
    tx,         \* per worker: uncommitted writes and row locks of its open transaction
    wk,         \* per worker: position in its handler and the handler's local variables
    locks,      \* PostgresStore.locks: user_id -> the mutex stored for it (0 = no entry)
    held,       \* the mutexes currently locked, each named <<user_id, n>>
    orderSeq    \* last value handed out by the orders id sequence (BIGSERIAL)

vars == <<db, tx, wk, locks, held, orderSeq>>

EmptyFn == [x \in {} |-> 0]

CartKeys == Users \X ProductIDs

EmptyTx ==
    [ stock |-> EmptyFn, cart_items |-> EmptyFn, carts |-> EmptyFn,
      orders |-> {}, order_items |-> {},
      lockP |-> {}, lockCI |-> {}, lockC |-> {} ]

IdleWorker ==
    [ pc |-> "idle", op |-> "none", userID |-> "u1", productID |-> 1, qty |-> 0,
      newStock |-> 0, stock |-> 0, todo |-> <<>>, items |-> <<>>, total |-> 0,
      orderID |-> 0, next |-> 0, m |-> 0, locked |-> FALSE, txOpen |-> FALSE,
      rolledBack |-> FALSE, aborted |-> FALSE, res |-> "none" ]

\* ------------------------------------------------- the transactional store
\* What transaction w reads: its own writes over the committed rows.
ViewStock(w, p) == IF p \in DOMAIN tx[w].stock THEN tx[w].stock[p] ELSE db.stock[p]
ViewCartItem(w, k) == IF k \in DOMAIN tx[w].cart_items THEN tx[w].cart_items[k] ELSE db.cart_items[k]
ViewCart(w, u) == IF u \in DOMAIN tx[w].carts THEN tx[w].carts[u] ELSE u \in db.carts

\* Faulty variant: statements on a product row do not wait for its row lock.
ProductRowFree_NoWait(w, p) == TRUE

\* Row locks: a row locked by another open transaction makes the statement wait.
ProductRowFree(w, p) == \A o \in Workers \ {w} : p \notin tx[o].lockP
CartItemRowFree(w, k) == \A o \in Workers \ {w} : k \notin tx[o].lockCI
CartRowFree(w, u) == \A o \in Workers \ {w} : u \notin tx[o].lockC

\* COMMIT: the overlay of t becomes the committed state.
Apply(d, t) ==
    [ stock |-> [p \in ProductIDs |-> IF p \in DOMAIN t.stock THEN t.stock[p] ELSE d.stock[p]],
      price |-> d.price,
      carts |-> {u \in Users : IF u \in DOMAIN t.carts THEN t.carts[u] ELSE u \in d.carts},
      cart_items |-> [k \in CartKeys |-> IF k \in DOMAIN t.cart_items THEN t.cart_items[k]
                                                                      ELSE d.cart_items[k]],
      orders |-> d.orders \cup t.orders,
      order_items |-> d.order_items \cup t.order_items ]

\* Faulty variant: the error branch returns without undoing the transaction's writes
RollbackReturn_KeepsWrites(w, err) ==
    /\ wk' = [wk EXCEPT ![w].pc = "ret", ![w].res = err, ![w].txOpen = FALSE,
                        ![w].rolledBack = TRUE]
    /\ tx' = [tx EXCEPT ![w] = EmptyTx]
    /\ db' = Apply(db, tx[w])
    /\ UNCHANGED <<locks, held, orderSeq>>

\* Faulty variant: the error branch sets rolledBack = true and returns without
\* calling tx.Rollback(): the transaction and its row locks outlive the call.
RollbackReturn_Leaks(w, err) ==
    /\ wk' = [wk EXCEPT ![w].pc = "ret", ![w].res = err, ![w].rolledBack = TRUE]
    /\ UNCHANGED <<db, tx, locks, held, orderSeq>>

\* `_ = tx.Rollback(); rolledBack = true; return err` of every error branch.
RollbackReturn(w, err) ==
    /\ wk' = [wk EXCEPT ![w].pc = "ret", ![w].res = err, ![w].txOpen = FALSE,
                        ![w].rolledBack = TRUE]
    /\ tx' = [tx EXCEPT ![w] = EmptyTx]
    /\ UNCHANGED <<db, locks, held, orderSeq>>

\* tx.Commit(): either the transaction commits, or Commit returns an error; in
\* the error case the server may or may not have made the transaction durable.
CommitTx(w) ==
    \/ /\ db' = Apply(db, tx[w])
       /\ wk' = [wk EXCEPT ![w].pc = "ret", ![w].res = OK, ![w].txOpen = FALSE,
                           ![w].rolledBack = TRUE]
    \/ /\ db' \in {db, Apply(db, tx[w])}
       /\ wk' = [wk EXCEPT ![w].pc = "ret", ![w].res = StoreError, ![w].txOpen = FALSE,
                           ![w].rolledBack = TRUE]

\* --------------------------------------------------------------- lockForUser
\* if v, ok := s.locks.Load(userID); ok { m := v.(*sync.Mutex) ... }: the handler
\* goes on to m.Lock() with the stored mutex, or to LoadOrStore if there is none.
lockForUser_Load(w, userID) ==
    IF locks[userID] # 0
      THEN [wk[w] EXCEPT !.pc = "mlock", !.userID = userID, !.m = locks[userID]]
      ELSE [wk[w] EXCEPT !.pc = "loadOrStore", !.userID = userID]

\* Faulty variant: Store instead of LoadOrStore: the new mutex replaces the stored one
lockForUser_LoadOrStore_Overwrites(w) ==
    /\ wk[w].pc = "loadOrStore"
    /\ LET u == wk[w].userID
           m == locks[u] + 1
       IN /\ m <= Cardinality(Workers)
          /\ locks' = [locks EXCEPT ![u] = m]
          /\ wk' = [wk EXCEPT ![w].pc = "mlock", ![w].m = m]
    /\ UNCHANGED <<db, tx, held, orderSeq>>

\* Faulty variant: after LoadOrStore the handler locks the mutex it created, m,
\* instead of the stored one, actual.
lockForUser_LoadOrStore_LocksOwn(w) ==
    /\ wk[w].pc = "loadOrStore"
    /\ LET u == wk[w].userID
           m == locks[u] + 1
           actual == IF locks[u] # 0 THEN locks[u] ELSE m
       IN /\ locks' = [locks EXCEPT ![u] = actual]
          /\ wk' = [wk EXCEPT ![w].pc = "mlock", ![w].m = m]
    /\ UNCHANGED <<db, tx, held, orderSeq>>

\* m := &sync.Mutex{}; actual, _ := s.locks.LoadOrStore(userID, m)
lockForUser_LoadOrStore(w) ==
    /\ wk[w].pc = "loadOrStore"
    /\ LET u == wk[w].userID
           m == locks[u] + 1
           actual == IF locks[u] # 0 THEN locks[u] ELSE m
       IN /\ locks' = [locks EXCEPT ![u] = actual]
          /\ wk' = [wk EXCEPT ![w].pc = "mlock", ![w].m = actual]
    /\ UNCHANGED <<db, tx, held, orderSeq>>

\* Faulty variant: one mutex for all keys: Lock waits while any owner's mutex is held
lockForUser_Lock_Global(w) ==
    /\ wk[w].pc = "mlock"
    /\ held = {}
    /\ held' = held \cup {<<wk[w].userID, wk[w].m>>}
    /\ wk' = [wk EXCEPT ![w].pc = "begin", ![w].locked = TRUE]
    /\ UNCHANGED <<db, tx, locks, orderSeq>>

\* Faulty variant: TryLock whose result is not read: the handler goes on to Begin
\* whether or not it got the mutex.
lockForUser_Lock_TryLock(w) ==
    /\ wk[w].pc = "mlock"
    /\ IF <<wk[w].userID, wk[w].m>> \notin held
         THEN /\ held' = held \cup {<<wk[w].userID, wk[w].m>>}
              /\ wk' = [wk EXCEPT ![w].pc = "begin", ![w].locked = TRUE]
         ELSE /\ held' = held
              /\ wk' = [wk EXCEPT ![w].pc = "begin"]
    /\ UNCHANGED <<db, tx, locks, orderSeq>>

\* mtx.Lock(): waits until the mutex is free.
lockForUser_Lock(w) ==
    /\ wk[w].pc = "mlock"
    /\ <<wk[w].userID, wk[w].m>> \notin held
    /\ held' = held \cup {<<wk[w].userID, wk[w].m>>}
    /\ wk' = [wk EXCEPT ![w].pc = "begin", ![w].locked = TRUE]
    /\ UNCHANGED <<db, tx, locks, orderSeq>>

\* First statement of each handler after s.DB.Begin().
FirstStatement(op) ==
    CASE op = "AddToCart" -> "add_cart"
      [] op = "RemoveFromCart" -> "rm_select"
      [] op = "Checkout" -> "co_query"

\* tx, err := s.DB.Begin(); if err != nil { return err }
Begin(w) ==
    /\ wk[w].pc = "begin"
    /\ \/ wk' = [wk EXCEPT ![w].pc = FirstStatement(wk[w].op), ![w].txOpen = TRUE]
       \/ wk' = [wk EXCEPT ![w].pc = "ret", ![w].res = StoreError]
    /\ UNCHANGED <<db, tx, locks, held, orderSeq>>

\* Faulty variant: the handler has no `defer unlock()`: it returns with the owner's
\* mutex locked.
Return_KeepsLock(w) ==
    /\ wk[w].pc = "ret"
    /\ wk' = [wk EXCEPT ![w] = IdleWorker]
    /\ tx' = [tx EXCEPT ![w] = EmptyTx]
    /\ UNCHANGED <<db, locks, held, orderSeq>>

\* The handler returns: the deferred calls run (rollback if !rolledBack, unlock()).
Return(w) ==
    /\ wk[w].pc = "ret"
    /\ held' = IF wk[w].locked THEN held \ {<<wk[w].userID, wk[w].m>>} ELSE held
    /\ wk' = [wk EXCEPT ![w] = IdleWorker]
    /\ tx' = [tx EXCEPT ![w] = EmptyTx]
    /\ UNCHANGED <<db, locks, orderSeq>>

\* Faulty variant: only negative quantities are rejected
InvalidQty_NegativeOnly(qty) == qty < 0

\* ------------------------------------------------------------------ AddToCart
\* if qty <= 0 { return errors.New("quantity must be > 0") }
InvalidQty(qty) == qty <= 0

\* AddToCart(userID, productID, qty): the quantity check, then lockForUser's Load.
AddToCart_Call(w, userID, productID, qty) ==
    /\ wk[w].pc = "idle"
    /\ IF InvalidQty(qty)
         THEN wk' = [wk EXCEPT ![w].pc = "ret", ![w].op = "AddToCart", ![w].userID = userID,
                               ![w].productID = productID, ![w].qty = qty,
                               ![w].res = ErrInvalidQty]
         ELSE wk' = [wk EXCEPT ![w] = [lockForUser_Load(w, userID) EXCEPT
                                          !.op = "AddToCart", !.productID = productID,
                                          !.qty = qty]]
    /\ UNCHANGED <<db, tx, locks, held, orderSeq>>

\* Faulty variant: the cart insert runs on s.DB instead of tx: it is committed at
\* once, whatever happens to the transaction.
AddToCart_EnsureCart_Autocommit(w) ==
    /\ wk[w].pc = "add_cart"
    /\ \/ /\ CartRowFree(w, wk[w].userID)
          /\ db' = [db EXCEPT !.carts = @ \cup {wk[w].userID}]
          /\ wk' = [wk EXCEPT ![w].pc = "add_stock"]
          /\ UNCHANGED <<tx, locks, held, orderSeq>>
       \/ RollbackReturn(w, StoreError)

\* Faulty variant: the handler does not insert the cart record before the line.
AddToCart_EnsureCart_Skipped(w) ==
    /\ wk[w].pc = "add_cart"
    /\ \/ /\ wk' = [wk EXCEPT ![w].pc = "add_stock"]
          /\ UNCHANGED <<db, tx, locks, held, orderSeq>>
       \/ RollbackReturn(w, StoreError)

\* INSERT INTO carts (user_id) VALUES ($1) ON CONFLICT (user_id) DO NOTHING
AddToCart_EnsureCart(w) ==
    /\ wk[w].pc = "add_cart"
    /\ \/ /\ CartRowFree(w, wk[w].userID)
          /\ IF ViewCart(w, wk[w].userID)
               THEN tx' = tx
               ELSE tx' = [tx EXCEPT ![w].carts = (wk[w].userID :> TRUE) @@ @,
                                     ![w].lockC = @ \cup {wk[w].userID}]
          /\ wk' = [wk EXCEPT ![w].pc = "add_stock"]
          /\ UNCHANGED <<db, locks, held, orderSeq>>
       \/ RollbackReturn(w, StoreError)

\* Faulty variant: the comparison is <= instead of <
InsufficientStock_OrEqual(stock, qty) == stock <= qty

\* if stock < qty { rollback; return ErrInsufficientStock }
InsufficientStock(stock, qty) == stock < qty

\* Faulty variant: the SELECT has no FOR UPDATE and never waits
SelectStock_NoRowLock(w, p) == TRUE

\* ... FOR UPDATE: the SELECT waits while another transaction holds the product row.
SelectStockForUpdate(w, p) == ProductRowFree(w, p)

\* SELECT stock FROM products WHERE id = $1 FOR UPDATE, then the stock check
AddToCart_SelectStock(w) ==
    /\ wk[w].pc = "add_stock"
    /\ LET p == wk[w].productID IN
       \/ /\ p \notin ProductIDs
          /\ RollbackReturn(w, ErrNoRows)
       \/ /\ p \in ProductIDs
          /\ SelectStockForUpdate(w, p)
          /\ IF InsufficientStock(ViewStock(w, p), wk[w].qty)
               THEN RollbackReturn(w, ErrInsufficientStock)
               ELSE /\ tx' = [tx EXCEPT ![w].lockP = @ \cup {p}]
                    /\ wk' = [wk EXCEPT ![w].pc = "add_upsert", ![w].stock = ViewStock(w, p)]
                    /\ UNCHANGED <<db, locks, held, orderSeq>>
       \/ RollbackReturn(w, StoreError)

\* Faulty variant: DO UPDATE SET quantity = EXCLUDED.quantity: the line is replaced.
UpsertQuantity_Replaces(old, qty) == qty

\* DO UPDATE SET quantity = cart_items.quantity + EXCLUDED.quantity (a new row has old = 0)
UpsertQuantity(old, qty) == old + qty

\* INSERT INTO cart_items (cart_id, product_id, quantity) ... ON CONFLICT ... DO UPDATE
AddToCart_Upsert(w) ==
    /\ wk[w].pc = "add_upsert"
    /\ LET k == <<wk[w].userID, wk[w].productID>> IN
       \/ /\ CartItemRowFree(w, k)
          /\ tx' = [tx EXCEPT ![w].cart_items = (k :> UpsertQuantity(ViewCartItem(w, k), wk[w].qty)) @@ @,
                              ![w].lockCI = @ \cup {k}]
          /\ wk' = [wk EXCEPT ![w].pc = "add_update"]
          /\ UNCHANGED <<db, locks, held, orderSeq>>
       \/ RollbackReturn(w, StoreError)

\* Faulty variant: SET stock = stock - 1: one unit leaves the stock whatever the quantity.
ReservedStock_OneUnit(stock, qty) == stock - 1

\* SET stock = stock - $1
ReservedStock(stock, qty) == stock - qty

\* UPDATE products SET stock = stock - $1 WHERE id = $2
AddToCart_UpdateStock(w) ==
    /\ wk[w].pc = "add_update"
    /\ LET p == wk[w].productID IN
       \/ /\ ProductRowFree(w, p)
          /\ tx' = [tx EXCEPT ![w].stock = (p :> ReservedStock(ViewStock(w, p), wk[w].qty)) @@ @,
                              ![w].lockP = @ \cup {p}]
          /\ wk' = [wk EXCEPT ![w].pc = "add_commit"]
          /\ UNCHANGED <<db, locks, held, orderSeq>>
       \/ RollbackReturn(w, StoreError)

\* if err := tx.Commit(); err != nil { ... }; rolledBack = true; return nil
AddToCart_Commit(w) ==
    /\ wk[w].pc = "add_commit"
    /\ CommitTx(w)
    /\ tx' = [tx EXCEPT ![w] = EmptyTx]
    /\ UNCHANGED <<locks, held, orderSeq>>

\* ------------------------------------------------------------- RemoveFromCart
\* RemoveFromCart(userID, productID): lockForUser's Load.
RemoveFromCart_Call(w, userID, productID) ==
    /\ wk[w].pc = "idle"
    /\ wk' = [wk EXCEPT ![w] = [lockForUser_Load(w, userID) EXCEPT
                                   !.op = "RemoveFromCart", !.productID = productID]]
    /\ UNCHANGED <<db, tx, locks, held, orderSeq>>

\* SELECT quantity FROM cart_items WHERE cart_id=$1 AND product_id=$2 (no row lock);
\* sql.ErrNoRows if the owner has no line for the product.
RemoveFromCart_SelectQuantity(w) ==
    /\ wk[w].pc = "rm_select"
    /\ LET k == <<wk[w].userID, wk[w].productID>> IN
       \/ /\ ViewCartItem(w, k) = 0
          /\ RollbackReturn(w, ErrNoRows)
       \/ /\ ViewCartItem(w, k) > 0
          /\ wk' = [wk EXCEPT ![w].pc = "rm_delete", ![w].qty = ViewCartItem(w, k)]
          /\ UNCHANGED <<db, tx, locks, held, orderSeq>>
       \/ RollbackReturn(w, StoreError)

\* Faulty variant: the DELETE is skipped: the line stays in the cart
RemoveFromCart_Delete_Skipped(w) ==
    /\ wk[w].pc = "rm_delete"
    /\ \/ /\ wk' = [wk EXCEPT ![w].pc = "rm_update"]
          /\ UNCHANGED <<db, tx, locks, held, orderSeq>>
       \/ RollbackReturn(w, StoreError)

\* DELETE FROM cart_items WHERE cart_id=$1 AND product_id=$2
RemoveFromCart_Delete(w) ==
    /\ wk[w].pc = "rm_delete"
    /\ LET k == <<wk[w].userID, wk[w].productID>> IN
       \/ /\ CartItemRowFree(w, k)
          /\ IF ViewCartItem(w, k) > 0
               THEN tx' = [tx EXCEPT ![w].cart_items = (k :> 0) @@ @,
                                     ![w].lockCI = @ \cup {k}]
               ELSE tx' = tx
          /\ wk' = [wk EXCEPT ![w].pc = "rm_update"]
          /\ UNCHANGED <<db, locks, held, orderSeq>>
       \/ RollbackReturn(w, StoreError)

\* Faulty variant: the release forgets to give the units back
RestoredStock_Nothing(stock, qty) == stock

\* Faulty variant: the release gives back one unit, whatever the line held
RestoredStock_OneUnit(stock, qty) == stock + 1

\* SET stock = stock + $1
RestoredStock(stock, qty) == stock + qty

\* UPDATE products SET stock = stock + $1 WHERE id = $2
RemoveFromCart_RestoreStock(w) ==
    /\ wk[w].pc = "rm_update"
    /\ LET p == wk[w].productID IN
       \/ /\ ProductRowFree(w, p)
          /\ tx' = [tx EXCEPT ![w].stock = (p :> RestoredStock(ViewStock(w, p), wk[w].qty)) @@ @,
                              ![w].lockP = @ \cup {p}]
          /\ wk' = [wk EXCEPT ![w].pc = "rm_commit"]
          /\ UNCHANGED <<db, locks, held, orderSeq>>
       \/ RollbackReturn(w, StoreError)

\* if err := tx.Commit(); err != nil { ... }; rolledBack = true; return nil
RemoveFromCart_Commit(w) ==
    /\ wk[w].pc = "rm_commit"
    /\ CommitTx(w)
    /\ tx' = [tx EXCEPT ![w] = EmptyTx]
    /\ UNCHANGED <<locks, held, orderSeq>>

\* ------------------------------------------------------------------- Checkout
\* The ascending sequence of the members of a finite set of product ids.
RECURSIVE SortedSeq(_)
SortedSeq(S) ==
    IF S = {} THEN <<>>
    ELSE LET lo == CHOOSE x \in S : \A y \in S : x <= y
         IN <<lo>> \o SortedSeq(S \ {lo})

\* ... ORDER BY p.id: the order in which the locked query visits the cart lines.
QueryOrder(S) == SortedSeq(S)

\* Faulty variant: the line total forgets the quantity
LineTotal_PriceOnly(quantity, price) == price

\* total += float64(it.Quantity) * it.Price
LineTotal(quantity, price) == quantity * price

\* Faulty variant: the emptiness check is missing
NoItems_Never(items) == FALSE

\* if len(items) == 0 { rollback; return errors.New("cart empty") }
NoItems(items) == Len(items) = 0

\* Checkout(userID): lockForUser's Load.
Checkout_Call(w, userID) ==
    /\ wk[w].pc = "idle"
    /\ wk' = [wk EXCEPT ![w] = [lockForUser_Load(w, userID) EXCEPT !.op = "Checkout"]]
    /\ UNCHANGED <<db, tx, locks, held, orderSeq>>

\* Faulty variant: the query has no ORDER BY: the lines come back in any order
Checkout_Query_Unordered(w) ==
    /\ wk[w].pc = "co_query"
    /\ LET u == wk[w].userID
           lines == {p \in ProductIDs : ViewCartItem(w, <<u, p>>) > 0}
           orders == {s \in [1..Cardinality(lines) -> lines] :
                         \A i, j \in 1..Cardinality(lines) : s[i] = s[j] => i = j}
       IN \/ /\ lines = {}
             /\ RollbackReturn(w, ErrCartEmpty)
          \/ /\ lines # {}
             /\ \E s \in orders : wk' = [wk EXCEPT ![w].pc = "co_rows", ![w].todo = s]
             /\ UNCHANGED <<db, tx, locks, held, orderSeq>>
          \/ RollbackReturn(w, StoreError)

\* rows, err := tx.Query(SELECT ci.product_id, ci.quantity, p.price FROM cart_items ci
\* JOIN products p ... WHERE ci.cart_id = $1 ORDER BY p.id FOR UPDATE): the statement
\* starts on the owner's lines as committed now; with no line, rows.Next() is false
\* at once and len(items) == 0 returns "cart empty".
Checkout_Query(w) ==
    /\ wk[w].pc = "co_query"
    /\ LET u == wk[w].userID
           lines == {p \in ProductIDs : ViewCartItem(w, <<u, p>>) > 0}
       IN \/ /\ lines = {}
             /\ IF NoItems(wk[w].items)
                  THEN RollbackReturn(w, ErrCartEmpty)
                  ELSE /\ wk' = [wk EXCEPT ![w].pc = "co_order"]
                       /\ UNCHANGED <<db, tx, locks, held, orderSeq>>
          \/ /\ lines # {}
             /\ wk' = [wk EXCEPT ![w].pc = "co_rows", ![w].todo = QueryOrder(lines)]
             /\ UNCHANGED <<db, tx, locks, held, orderSeq>>
          \/ RollbackReturn(w, StoreError)

\* Faulty variant: the rows loop compares each line with the product's stock and
\* fails with ErrInsufficientStock when the line asks for more than is left.
Checkout_NextRow_ValidatesStock(w) ==
    /\ wk[w].pc = "co_rows"
    /\ LET u == wk[w].userID
           p == Head(wk[w].todo)
           k == <<u, p>>
           rest == Tail(wk[w].todo)
           got == IF ViewCartItem(w, k) > 0
                    THEN Append(wk[w].items, [ProductID |-> p,
                                              Quantity |-> ViewCartItem(w, k),
                                              Price |-> db.price[p]])
                    ELSE wk[w].items
           sum == IF ViewCartItem(w, k) > 0
                    THEN wk[w].total + LineTotal(ViewCartItem(w, k), db.price[p])
                    ELSE wk[w].total
       IN \/ /\ CartItemRowFree(w, k)
             /\ ProductRowFree(w, p)
             /\ IF ViewStock(w, p) < ViewCartItem(w, k)
                  THEN RollbackReturn(w, ErrInsufficientStock)
                  ELSE IF rest = <<>> /\ NoItems(got)
                  THEN RollbackReturn(w, ErrCartEmpty)
                  ELSE /\ tx' = [tx EXCEPT ![w].lockCI = @ \cup {k}, ![w].lockP = @ \cup {p}]
                       /\ wk' = [wk EXCEPT ![w].pc = IF rest = <<>> THEN "co_order" ELSE "co_rows",
                                           ![w].todo = rest, ![w].items = got, ![w].total = sum]
                       /\ UNCHANGED <<db, locks, held, orderSeq>>
          \/ /\ wk[w].items = <<>>
             /\ RollbackReturn(w, StoreError)
          \/ /\ wk[w].items # <<>>
             /\ wk' = [wk EXCEPT ![w].pc = "co_order", ![w].todo = <<>>, ![w].aborted = TRUE]
             /\ UNCHANGED <<db, tx, locks, held, orderSeq>>

\* Faulty variant: the query has no FOR UPDATE: the rows loop reads the committed
\* lines without waiting for, or taking, a row lock.
Checkout_NextRow_NoRowLock(w) ==
    /\ wk[w].pc = "co_rows"
    /\ LET u == wk[w].userID
           p == Head(wk[w].todo)
           k == <<u, p>>
           rest == Tail(wk[w].todo)
           got == IF ViewCartItem(w, k) > 0
                    THEN Append(wk[w].items, [ProductID |-> p,
                                              Quantity |-> ViewCartItem(w, k),
                                              Price |-> db.price[p]])
                    ELSE wk[w].items
           sum == IF ViewCartItem(w, k) > 0
                    THEN wk[w].total + LineTotal(ViewCartItem(w, k), db.price[p])
                    ELSE wk[w].total
       IN \/ IF rest = <<>> /\ NoItems(got)
               THEN RollbackReturn(w, ErrCartEmpty)
               ELSE /\ wk' = [wk EXCEPT ![w].pc = IF rest = <<>> THEN "co_order" ELSE "co_rows",
                                        ![w].todo = rest, ![w].items = got, ![w].total = sum]
                    /\ UNCHANGED <<db, tx, locks, held, orderSeq>>
          \/ /\ wk[w].items = <<>>
             /\ RollbackReturn(w, StoreError)
          \/ /\ wk[w].items # <<>>
             /\ wk' = [wk EXCEPT ![w].pc = "co_order", ![w].todo = <<>>, ![w].aborted = TRUE]
             /\ UNCHANGED <<db, tx, locks, held, orderSeq>>

\* The query locks and returns the next line (cart_items row and products row) and
\* the loop body appends it: items = append(items, it); total += quantity * price.
\* A line deleted while the query waited for its lock is skipped.  A failure before
\* the first row is returned by tx.Query; a later one ends rows.Next() (rows.Err()
\* is not read) and leaves the transaction aborted.
Checkout_NextRow(w) ==
    /\ wk[w].pc = "co_rows"
    /\ LET u == wk[w].userID
           p == Head(wk[w].todo)
           k == <<u, p>>
           rest == Tail(wk[w].todo)
           got == IF ViewCartItem(w, k) > 0
                    THEN Append(wk[w].items, [ProductID |-> p,
                                              Quantity |-> ViewCartItem(w, k),
                                              Price |-> db.price[p]])
                    ELSE wk[w].items
           sum == IF ViewCartItem(w, k) > 0
                    THEN wk[w].total + LineTotal(ViewCartItem(w, k), db.price[p])
                    ELSE wk[w].total
       IN \/ /\ CartItemRowFree(w, k)
             /\ ProductRowFree(w, p)
             /\ IF rest = <<>> /\ NoItems(got)
                  THEN RollbackReturn(w, ErrCartEmpty)
                  ELSE /\ tx' = [tx EXCEPT ![w].lockCI = @ \cup {k}, ![w].lockP = @ \cup {p}]
                       /\ wk' = [wk EXCEPT ![w].pc = IF rest = <<>> THEN "co_order" ELSE "co_rows",
                                           ![w].todo = rest, ![w].items = got, ![w].total = sum]
                       /\ UNCHANGED <<db, locks, held, orderSeq>>
          \/ /\ wk[w].items = <<>>
             /\ RollbackReturn(w, StoreError)
          \/ /\ wk[w].items # <<>>
             /\ wk' = [wk EXCEPT ![w].pc = "co_order", ![w].todo = <<>>, ![w].aborted = TRUE]
             /\ UNCHANGED <<db, tx, locks, held, orderSeq>>

\* INSERT INTO orders (user_id, total) VALUES ($1,$2) RETURNING id, created_at
\* (the id is drawn from the table's sequence, which a rollback does not give back;
\* the statement fails once the sequence is exhausted)
Checkout_InsertOrder(w) ==
    /\ wk[w].pc = "co_order"
    /\ \/ /\ ~wk[w].aborted
          /\ orderSeq < MaxOrderID
          /\ orderSeq' = orderSeq + 1
          /\ tx' = [tx EXCEPT ![w].orders = @ \cup {[ID |-> orderSeq + 1,
                                                     UserID |-> wk[w].userID,
                                                     Total |-> wk[w].total]}]
          /\ wk' = [wk EXCEPT ![w].pc = "co_prepare", ![w].orderID = orderSeq + 1]
          /\ UNCHANGED <<db, locks, held>>
       \/ RollbackReturn(w, StoreError)

\* stmt, err := tx.Prepare(INSERT INTO order_items ...)
Checkout_Prepare(w) ==
    /\ wk[w].pc = "co_prepare"
    /\ \/ /\ wk' = [wk EXCEPT ![w].pc = "co_items", ![w].next = 1]
          /\ UNCHANGED <<db, tx, locks, held, orderSeq>>
       \/ RollbackReturn(w, StoreError)

\* Faulty variant: the row is written under the id of the first order
OrderItemOf_FirstOrder(orderID, it) ==
    [OrderID |-> 1, ProductID |-> it.ProductID, Quantity |-> it.Quantity, Price |-> it.Price]

\* The order_items row written for one element of items.
OrderItemOf(orderID, it) ==
    [OrderID |-> orderID, ProductID |-> it.ProductID, Quantity |-> it.Quantity, Price |-> it.Price]

\* for _, it := range items { stmt.Exec(orderID, it.ProductID, it.Quantity, it.Price) }
Checkout_InsertItem(w) ==
    /\ wk[w].pc = "co_items"
    /\ \/ /\ tx' = [tx EXCEPT ![w].order_items =
                        @ \cup {OrderItemOf(wk[w].orderID, wk[w].items[wk[w].next])}]
          /\ wk' = [wk EXCEPT ![w].next = @ + 1,
                              ![w].pc = IF wk[w].next = Len(wk[w].items) THEN "co_delitems"
                                                                         ELSE "co_items"]
          /\ UNCHANGED <<db, locks, held, orderSeq>>
       \/ RollbackReturn(w, StoreError)

\* Faulty variant: Checkout also takes the ordered units out of stock before clearing the cart
Checkout_DeleteCartItems_DecrementsStock(w) ==
    /\ wk[w].pc = "co_delitems"
    /\ LET u == wk[w].userID
           rows == {k \in CartKeys : k[1] = u /\ ViewCartItem(w, k) > 0}
       IN \/ /\ tx' = [tx EXCEPT ![w].cart_items = [k \in rows |-> 0] @@ @,
                                 ![w].lockCI = @ \cup rows,
                                 ![w].stock = [p \in {k[2] : k \in rows} |->
                                                  ViewStock(w, p) - ViewCartItem(w, <<u, p>>)] @@ @]
             /\ wk' = [wk EXCEPT ![w].pc = "co_delcart"]
             /\ UNCHANGED <<db, locks, held, orderSeq>>
          \/ RollbackReturn(w, StoreError)

\* DELETE FROM cart_items WHERE cart_id = $1
Checkout_DeleteCartItems(w) ==
    /\ wk[w].pc = "co_delitems"
    /\ LET u == wk[w].userID
           rows == {k \in CartKeys : k[1] = u /\ ViewCartItem(w, k) > 0}
       IN \/ /\ \A k \in rows : CartItemRowFree(w, k)
             /\ tx' = [tx EXCEPT ![w].cart_items = [k \in rows |-> 0] @@ @,
                                 ![w].lockCI = @ \cup rows]
             /\ wk' = [wk EXCEPT ![w].pc = "co_delcart"]
             /\ UNCHANGED <<db, locks, held, orderSeq>>
          \/ RollbackReturn(w, StoreError)

\* Faulty variant: the cart record is left in place: only the cart items are deleted.
Checkout_DeleteCart_Skipped(w) ==
    /\ wk[w].pc = "co_delcart"
    /\ \/ /\ wk' = [wk EXCEPT ![w].pc = "co_commit"]
          /\ UNCHANGED <<db, tx, locks, held, orderSeq>>
       \/ RollbackReturn(w, StoreError)

\* Faulty variant: the DELETE has no user_id condition: every cart record goes, and
\* with it (ON DELETE CASCADE) every cart item.
Checkout_DeleteCart_AllOwners(w) ==
    /\ wk[w].pc = "co_delcart"
    /\ LET owners == {u \in Users : ViewCart(w, u)}
           rows == {k \in CartKeys : ViewCartItem(w, k) > 0}
       IN \/ /\ \A u \in owners : CartRowFree(w, u)
             /\ \A k \in rows : CartItemRowFree(w, k)
             /\ tx' = [tx EXCEPT ![w].carts = [u \in owners |-> FALSE] @@ @,
                                 ![w].lockC = @ \cup owners,
                                 ![w].cart_items = [k \in rows |-> 0] @@ @,
                                 ![w].lockCI = @ \cup rows]
             /\ wk' = [wk EXCEPT ![w].pc = "co_commit"]
             /\ UNCHANGED <<db, locks, held, orderSeq>>
          \/ RollbackReturn(w, StoreError)

\* DELETE FROM carts WHERE user_id = $1 (cart_items.cart_id is ON DELETE CASCADE)
Checkout_DeleteCart(w) ==
    /\ wk[w].pc = "co_delcart"
    /\ LET u == wk[w].userID
           rows == {k \in CartKeys : k[1] = u /\ ViewCartItem(w, k) > 0}
       IN \/ /\ CartRowFree(w, u)
             /\ \A k \in rows : CartItemRowFree(w, k)
             /\ IF ViewCart(w, u)
                  THEN tx' = [tx EXCEPT ![w].carts = (u :> FALSE) @@ @,
                                        ![w].lockC = @ \cup {u},
                                        ![w].cart_items = [k \in rows |-> 0] @@ @,
                                        ![w].lockCI = @ \cup rows]
                  ELSE tx' = tx
             /\ wk' = [wk EXCEPT ![w].pc = "co_commit"]
             /\ UNCHANGED <<db, locks, held, orderSeq>>
          \/ RollbackReturn(w, StoreError)

\* if err := tx.Commit(); err != nil { ... }
\* order = OrderRow{ID: orderID, UserID: userID, Total: total, ...}; return order, items, nil
Checkout_Commit(w) ==
    /\ wk[w].pc = "co_commit"
    /\ CommitTx(w)
    /\ tx' = [tx EXCEPT ![w] = EmptyTx]
    /\ UNCHANGED <<locks, held, orderSeq>>

\* The OrderRow a successful Checkout returns.
ReturnedOrder(w) == [ID |-> wk[w].orderID, UserID |-> wk[w].userID, Total |-> wk[w].total]

\* ---------------------------------------------------------------- UpdateStock
\* Faulty variant: the check is missing
NegativeStock_Unchecked(newStock) == FALSE

\* if newStock < 0 { return errors.New("stock cannot be negative") }
NegativeStock(newStock) == newStock < 0

\* Units of product p held in the committed cart lines of the owners us.
RECURSIVE ReservedBy(_, _)
ReservedBy(us, p) ==
    IF us = {} THEN 0
    ELSE LET u == CHOOSE x \in us : TRUE
         IN db.cart_items[<<u, p>>] + ReservedBy(us \ {u}, p)

Reserved(p) == ReservedBy(Users, p)

\* Units of product p in the committed order_items rows.
RECURSIVE SumQuantity(_)
SumQuantity(rows) ==
    IF rows = {} THEN 0
    ELSE LET r == CHOOSE x \in rows : TRUE
         IN r.Quantity + SumQuantity(rows \ {r})

Ordered(p) == SumQuantity({oi \in db.order_items : oi.ProductID = p})

\* Faulty variant: UpdateStock that does not read RowsAffected, so an UPDATE that
\* matched no product row is reported as a success.
UpdateStock_IgnoresMissingRow(w, productID, newStock) ==
    /\ wk[w].pc = "idle"
    /\ LET call == [wk[w] EXCEPT !.op = "UpdateStock", !.pc = "ret",
                                 !.productID = productID, !.newStock = newStock]
       IN \/ /\ NegativeStock(newStock)
             /\ wk' = [wk EXCEPT ![w] = [call EXCEPT !.res = ErrNegativeStock]]
             /\ db' = db
          \/ /\ ~NegativeStock(newStock)
             /\ productID \notin ProductIDs
             /\ wk' = [wk EXCEPT ![w] = [call EXCEPT !.res = OK]]
             /\ db' = db
          \/ /\ ~NegativeStock(newStock)
             /\ productID \in ProductIDs
             /\ ProductRowFree(w, productID)
             /\ newStock + Reserved(productID) <= MaxStock
             /\ wk' = [wk EXCEPT ![w] = [call EXCEPT !.res = OK]]
             /\ db' = [db EXCEPT !.stock[productID] = newStock]
          \/ /\ ~NegativeStock(newStock)
             /\ wk' = [wk EXCEPT ![w] = [call EXCEPT !.res = StoreError]]
             /\ db' = db
    /\ UNCHANGED <<tx, locks, held, orderSeq>>

\* Faulty variant: setting the stock also drops the cart lines that hold units of
\* the product.
UpdateStock_DropsReservations(w, productID, newStock) ==
    /\ wk[w].pc = "idle"
    /\ LET call == [wk[w] EXCEPT !.op = "UpdateStock", !.pc = "ret",
                                 !.productID = productID, !.newStock = newStock]
       IN \/ /\ NegativeStock(newStock)
             /\ wk' = [wk EXCEPT ![w] = [call EXCEPT !.res = ErrNegativeStock]]
             /\ db' = db
          \/ /\ ~NegativeStock(newStock)
             /\ productID \notin ProductIDs
             /\ wk' = [wk EXCEPT ![w] = [call EXCEPT !.res = ErrNoRows]]
             /\ db' = db
          \/ /\ ~NegativeStock(newStock)
             /\ productID \in ProductIDs
             /\ ProductRowFree(w, productID)
             /\ \A u \in Users : CartItemRowFree(w, <<u, productID>>)
             /\ newStock + Reserved(productID) <= MaxStock
             /\ wk' = [wk EXCEPT ![w] = [call EXCEPT !.res = OK]]
             /\ db' = [db EXCEPT !.stock[productID] = newStock,
                                 !.cart_items = [k \in CartKeys |->
                                                    IF k[2] = productID THEN 0 ELSE @[k]]]
          \/ /\ ~NegativeStock(newStock)
             /\ wk' = [wk EXCEPT ![w] = [call EXCEPT !.res = StoreError]]
             /\ db' = db
    /\ UNCHANGED <<tx, locks, held, orderSeq>>

\* UpdateStock(productID, newStock): UPDATE products SET stock=$1 WHERE id=$2 in its
\* own implicit transaction; sql.ErrNoRows when no row was affected.  The statement
\* waits for the product's row lock.  (Restocking is capped: stock plus reserved
\* units of a product stay within MaxStock.)
UpdateStock(w, productID, newStock) ==
    /\ wk[w].pc = "idle"
    /\ LET call == [wk[w] EXCEPT !.op = "UpdateStock", !.pc = "ret",
                                 !.productID = productID, !.newStock = newStock]
       IN \/ /\ NegativeStock(newStock)
             /\ wk' = [wk EXCEPT ![w] = [call EXCEPT !.res = ErrNegativeStock]]
             /\ db' = db
          \/ /\ ~NegativeStock(newStock)
             /\ productID \notin ProductIDs
             /\ wk' = [wk EXCEPT ![w] = [call EXCEPT !.res = ErrNoRows]]
             /\ db' = db
          \/ /\ ~NegativeStock(newStock)
             /\ productID \in ProductIDs
             /\ ProductRowFree(w, productID)
             /\ newStock + Reserved(productID) <= MaxStock
             /\ wk' = [wk EXCEPT ![w] = [call EXCEPT !.res = OK]]
             /\ db' = [db EXCEPT !.stock[productID] = newStock]
          \/ /\ ~NegativeStock(newStock)
             /\ wk' = [wk EXCEPT ![w] = [call EXCEPT !.res = StoreError]]
             /\ db' = db
    /\ UNCHANGED <<tx, locks, held, orderSeq>>

\* --------------------------------------------------------------- price change
\* An administrator changes a product's price (UPDATE products SET price = ...):
\* one statement in its own transaction, which waits for the product's row lock.
SetPrice(p, price) ==
    /\ price # db.price[p]
    /\ \A o \in Workers : p \notin tx[o].lockP
    /\ db' = [db EXCEPT !.price[p] = price]
    /\ UNCHANGED <<tx, wk, locks, held, orderSeq>>

\* -------------------------------------------------------------------- GetCart
\* The sequences that list members of S without repetition, in any order and of any
\* length: what a rows loop collects when the SELECT has no ORDER BY and an error
\* that ends rows.Next() early goes unnoticed (rows.Err() is not read).
RowsRead(S) ==
    UNION {{s \in [1..n -> S] : \A i, j \in 1..n : s[i] = s[j] => i = j}
           : n \in 0..Cardinality(S)}

\* store.GetCart: SELECT product_id, quantity FROM cart_items WHERE cart_id=$1, one
\* statement outside any transaction and without the owner's mutex.
GetCart_Query(w) ==
    /\ wk[w].pc = "gc_rows"
    /\ LET u == wk[w].userID
           lines == {p \in ProductIDs : db.cart_items[<<u, p>>] > 0}
       IN \/ \E s \in RowsRead(lines) :
                wk' = [wk EXCEPT ![w].pc = "gc_products",
                                 ![w].items = [i \in 1..Len(s) |->
                                                  [ProductID |-> s[i],
                                                   Quantity |-> db.cart_items[<<u, s[i]>>],
                                                   Price |-> 0]]]
          \/ wk' = [wk EXCEPT ![w].pc = "ret", ![w].res = StoreError]
    /\ UNCHANGED <<db, tx, locks, held, orderSeq>>

\* -------------------------------------------------------------- service layer
ErrUserRequired == "user_id required"
ErrProductNotFound == "product not found"

\* Faulty variant: the owner check refuses every owner id.
UserRequired_Always(userID) == TRUE

\* if userID == "" { return errors.New("user_id required") }
UserRequired(userID) == userID = ""

\* The service returns without calling the store.
Service_Reject(w, op, userID, productID, qty, err) ==
    /\ wk[w].pc = "idle"
    /\ wk' = [wk EXCEPT ![w].pc = "ret", ![w].op = op, ![w].userID = userID,
                        ![w].productID = productID, ![w].qty = qty, ![w].res = err]
    /\ UNCHANGED <<db, tx, locks, held, orderSeq>>

\* Service.AddToCart: user and quantity checks, then return s.store.AddToCart(...)
Service_AddToCart(w, userID, productID, qty) ==
    IF UserRequired(userID)
      THEN Service_Reject(w, "AddToCart", userID, productID, qty, ErrUserRequired)
      ELSE IF qty <= 0
             THEN Service_Reject(w, "AddToCart", userID, productID, qty, ErrInvalidQty)
             ELSE AddToCart_Call(w, userID, productID, qty)

\* Service.RemoveFromCart: user check, then return s.store.RemoveFromCart(...)
Service_RemoveFromCart(w, userID, productID) ==
    IF UserRequired(userID)
      THEN Service_Reject(w, "RemoveFromCart", userID, productID, 0, ErrUserRequired)
      ELSE RemoveFromCart_Call(w, userID, productID)

\* Service.Checkout: user check, then s.store.Checkout(userID)
Service_Checkout(w, userID) ==
    IF UserRequired(userID)
      THEN Service_Reject(w, "Checkout", userID, 1, 0, ErrUserRequired)
      ELSE Checkout_Call(w, userID)

\* Service.UpdateStock: the stock check, then return s.store.UpdateStock(...)
Service_UpdateStock(w, productID, newStock) ==
    IF newStock < 0
      THEN /\ wk[w].pc = "idle"
           /\ wk' = [wk EXCEPT ![w].pc = "ret", ![w].op = "UpdateStock",
                               ![w].productID = productID, ![w].newStock = newStock,
                               ![w].res = ErrNegativeStock]
           /\ UNCHANGED <<db, tx, locks, held, orderSeq>>
      ELSE UpdateStock(w, productID, newStock)

\* Service.GetCart: user check, then rows, err := s.store.GetCart(userID)
Service_GetCart(w, userID) ==
    IF UserRequired(userID)
      THEN Service_Reject(w, "GetCart", userID, 1, 0, ErrUserRequired)
      ELSE /\ wk[w].pc = "idle"
           /\ wk' = [wk EXCEPT ![w].pc = "gc_rows", ![w].op = "GetCart", ![w].userID = userID]
           /\ UNCHANGED <<db, tx, locks, held, orderSeq>>

\* total += price * float64(r.Quantity)
ServiceLineTotal(price, quantity) == price * quantity

\* The total of the priced cart rows.
RECURSIVE CartRowsTotal(_)
CartRowsTotal(rows) ==
    IF rows = <<>> THEN 0
    ELSE ServiceLineTotal(Head(rows).Price, Head(rows).Quantity) + CartRowsTotal(Tail(rows))

\* products, err := s.store.ListProducts() (ORDER BY id; its rows loop does not read
\* rows.Err() either, so the list may stop early), then the price lookup and total:
\* a cart row whose product is not in the list gives "product %d not found".
Service_GetCart_Prices(w) ==
    /\ wk[w].pc = "gc_products"
    /\ \/ \E n \in 0..Cardinality(ProductIDs) :
             LET all == SortedSeq(ProductIDs)
                 listed == {all[i] : i \in 1..n}
                 rows == wk[w].items
                 priced == [i \in 1..Len(rows) |->
                              [rows[i] EXCEPT !.Price = db.price[rows[i].ProductID]]]
             IN IF \E i \in 1..Len(rows) : rows[i].ProductID \notin listed
                  THEN wk' = [wk EXCEPT ![w].pc = "ret", ![w].res = ErrProductNotFound,
                                        ![w].items = <<>>]
                  ELSE wk' = [wk EXCEPT ![w].pc = "ret", ![w].res = OK, ![w].items = priced,
                                        ![w].total = CartRowsTotal(priced)]
       \/ wk' = [wk EXCEPT ![w].pc = "ret", ![w].res = StoreError, ![w].items = <<>>]
    /\ UNCHANGED <<db, tx, locks, held, orderSeq>>

\* What the service hands to its caller for what the store returned: the store's
\* error as it is (return s.store.X(...); if err != nil { return ..., err }).
ServiceReturns(res) == res

\* ------------------------------------------------------------ specifications
Init ==
    /\ db = [ stock |-> SeedStock,
              price |-> [p \in ProductIDs |-> p],
              carts |-> {},
              cart_items |-> [k \in CartKeys |-> 0],
              orders |-> {},
              order_items |-> {} ]
    /\ tx = [w \in Workers |-> EmptyTx]
    /\ wk = [w \in Workers |-> IdleWorker]
    /\ locks = [u \in Users |-> 0]
    /\ held = {}
    /\ orderSeq = 0

\* The steps of a running handler.
Step(w) ==
    \/ lockForUser_LoadOrStore(w)
    \/ lockForUser_Lock(w)
    \/ Begin(w)
    \/ AddToCart_EnsureCart(w)
    \/ AddToCart_SelectStock(w)
    \/ AddToCart_Upsert(w)
    \/ AddToCart_UpdateStock(w)
    \/ AddToCart_Commit(w)
    \/ RemoveFromCart_SelectQuantity(w)
    \/ RemoveFromCart_Delete(w)
    \/ RemoveFromCart_RestoreStock(w)
    \/ RemoveFromCart_Commit(w)
    \/ Checkout_Query(w)
    \/ Checkout_NextRow(w)
    \/ Checkout_InsertOrder(w)
    \/ Checkout_Prepare(w)
    \/ Checkout_InsertItem(w)
    \/ Checkout_DeleteCartItems(w)
    \/ Checkout_DeleteCart(w)
    \/ Checkout_Commit(w)
    \/ Return(w)

\* A caller starts a Checkout only while fewer than max order ids are drawn or about
\* to be drawn, or when the owner's cart is empty and nobody else is working on it.
BeforeOrderInsert == {"loadOrStore", "mlock", "begin", "co_query", "co_rows", "co_order"}
PendingCheckouts == {w \in Workers : wk[w].op = "Checkout" /\ wk[w].pc \in BeforeOrderInsert}
OrderIDsLeft(w, u, max) ==
    \/ orderSeq + Cardinality(PendingCheckouts) < max
    \/ /\ \A p \in ProductIDs : db.cart_items[<<u, p>>] = 0
       /\ \A o \in Workers \ {w} : wk[o].pc = "idle" \/ wk[o].userID # u \/ wk[o].op = "UpdateStock"

\* The calls a shopper goroutine makes for owners us on products ps.
Shopper(w, us, ps, max) ==
    \/ \E u \in us, p \in ps, q \in Quantities : AddToCart_Call(w, u, p, q)
    \/ \E u \in us, p \in ps : RemoveFromCart_Call(w, u, p)
    \/ \E u \in us : OrderIDsLeft(w, u, max) /\ Checkout_Call(w, u)

\* The calls an administrator goroutine makes on products ps.
Admin(w, ps, ns) == \E p \in ps, n \in ns : UpdateStock(w, p, n)

\* Spec: two shoppers with different owners; u1 shops both products, u2 product 1.
Next ==
    \/ Shopper("w1", {"u1"}, ProductIDs, MaxOrderID - 1)
    \/ Shopper("w2", {"u2"}, {1}, MaxOrderID - 1)
    \/ \E w \in Workers : Step(w)

Spec == Init /\ [][Next]_vars

\* SpecAdmin: two shoppers with different owners on product 1, both also restocking.
NextAdmin ==
    \/ Shopper("w1", {"u1"}, {1}, MaxOrderID - 1)
    \/ Shopper("w2", {"u2"}, {1}, MaxOrderID - 1)
    \/ Admin("w1", {1, 3}, StockArgs)
    \/ \E w \in Workers : Step(w)

SpecAdmin == Init /\ [][NextAdmin]_vars

\* SpecPrice: one shopper and administrator, while prices change.
NextPrice ==
    \/ Shopper("w1", {"u1"}, ProductIDs, MaxOrderID)
    \/ Admin("w1", {1}, {-1, 0})
    \/ \E p \in ProductIDs, price \in Prices : SetPrice(p, price)
    \/ Step("w1")

SpecPrice == Init /\ [][NextPrice]_vars

\* SpecSame: two goroutines shopping for the same owner on product 1.
NextSame ==
    \/ Shopper("w1", {"u1"}, {1}, MaxOrderID)
    \/ Shopper("w2", {"u1"}, {1}, MaxOrderID)
    \/ \E w \in Workers : Step(w)

SpecSame == Init /\ [][NextSame]_vars

\* SpecSameLive: SpecSame under fair scheduling.  A goroutine that can take a step
\* of its handler takes one (the runtime schedules every runnable goroutine and the
\* store's calls return), and a goroutine waiting in Lock gets the mutex if it
\* becomes free again and again (sync.Mutex hands the mutex to a waiter that has
\* waited for more than a millisecond).
SpecSameLive ==
    /\ SpecSame
    /\ \A w \in Workers : WF_vars(Step(w)) /\ SF_vars(lockForUser_Lock(w))

\* A buyer goroutine for owner u: puts one unit of a product it does not hold yet in
\* the cart, releases a product, or checks out.
Buyer(w, u, max) ==
    \/ \E p \in ProductIDs : db.cart_items[<<u, p>>] = 0 /\ AddToCart_Call(w, u, p, 1)
    \/ \E p \in ProductIDs : RemoveFromCart_Call(w, u, p)
    \/ OrderIDsLeft(w, u, max) /\ Checkout_Call(w, u)

\* SpecOrder: two owners filling and checking out carts over both products.
NextOrder ==
    \/ Buyer("w1", "u1", MaxOrderID)
    \/ Buyer("w2", "u2", MaxOrderID)
    \/ \E w \in Workers : Step(w)

SpecOrder == Init /\ [][NextOrder]_vars

\* The handlers called in another process of the deployment.  lockForUser there
\* works on that process's own PostgresStore.locks, which the goroutines of this
\* process do not share: its mutex is free and the handler goes on to s.DB.Begin().
AddToCart_CallElsewhere(w, userID, productID, qty) ==
    /\ wk[w].pc = "idle"
    /\ wk' = [wk EXCEPT ![w].pc = IF InvalidQty(qty) THEN "ret" ELSE "begin",
                        ![w].op = "AddToCart", ![w].userID = userID,
                        ![w].productID = productID, ![w].qty = qty,
                        ![w].res = IF InvalidQty(qty) THEN ErrInvalidQty ELSE "none"]
    /\ UNCHANGED <<db, tx, locks, held, orderSeq>>

RemoveFromCart_CallElsewhere(w, userID, productID) ==
    /\ wk[w].pc = "idle"
    /\ wk' = [wk EXCEPT ![w].pc = "begin", ![w].op = "RemoveFromCart",
                        ![w].userID = userID, ![w].productID = productID]
    /\ UNCHANGED <<db, tx, locks, held, orderSeq>>

\* The steps of a running AddToCart or RemoveFromCart.
ReserveReleaseStep(w) ==
    \/ lockForUser_LoadOrStore(w)
    \/ lockForUser_Lock(w)
    \/ Begin(w)
    \/ AddToCart_EnsureCart(w)
    \/ AddToCart_SelectStock(w)
    \/ AddToCart_Upsert(w)
    \/ AddToCart_UpdateStock(w)
    \/ AddToCart_Commit(w)
    \/ RemoveFromCart_SelectQuantity(w)
    \/ RemoveFromCart_Delete(w)
    \/ RemoveFromCart_RestoreStock(w)
    \/ RemoveFromCart_Commit(w)
    \/ Return(w)

\* SpecProcs: two processes on one database reserving and releasing product 1 for
\* the same owner: goroutine w1 in this process, w2 in another one.  Calls are made
\* while the stock of product 1 is within MaxStock.
NextProcs ==
    \/ /\ db.stock[1] <= MaxStock
       /\ \/ \E q \in Quantities : AddToCart_Call("w1", "u1", 1, q)
          \/ RemoveFromCart_Call("w1", "u1", 1)
          \/ \E q \in Quantities : AddToCart_CallElsewhere("w2", "u1", 1, q)
          \/ RemoveFromCart_CallElsewhere("w2", "u1", 1)
    \/ \E w \in Workers : ReserveReleaseStep(w)

SpecProcs == Init /\ [][NextProcs]_vars

\* Checkout(userID) called in another process on the same database: lockForUser
\* finds that process's own registry, which the goroutines of this process do not
\* share: its mutex is free and the handler goes on to s.DB.Begin().
Checkout_CallElsewhere(w, userID) ==
    /\ wk[w].pc = "idle"
    /\ wk' = [wk EXCEPT ![w].pc = "begin", ![w].op = "Checkout", ![w].userID = userID]
    /\ UNCHANGED <<db, tx, locks, held, orderSeq>>

\* The steps of a running AddToCart or Checkout.
FillCheckoutStep(w) ==
    \/ lockForUser_LoadOrStore(w)
    \/ lockForUser_Lock(w)
    \/ Begin(w)
    \/ AddToCart_EnsureCart(w)
    \/ AddToCart_SelectStock(w)
    \/ AddToCart_Upsert(w)
    \/ AddToCart_UpdateStock(w)
    \/ AddToCart_Commit(w)
    \/ Checkout_Query(w)
    \/ Checkout_NextRow(w)
    \/ Checkout_InsertOrder(w)
    \/ Checkout_Prepare(w)
    \/ Checkout_InsertItem(w)
    \/ Checkout_DeleteCartItems(w)
    \/ Checkout_DeleteCart(w)
    \/ Checkout_Commit(w)
    \/ Return(w)

\* SpecCheckouts: two Checkouts of the same owner at once, goroutine w1 in this
\* process and w2 in another process on the same database, so that only the row
\* locks stand between them.  w1 also fills the owner's cart, while no Checkout of
\* the other process is running.
NextCheckouts ==
    \/ /\ wk["w2"].pc = "idle"
       /\ \E p \in ProductIDs, q \in Quantities : AddToCart_Call("w1", "u1", p, q)
    \/ /\ OrderIDsLeft("w1", "u1", MaxOrderID)
       /\ Checkout_Call("w1", "u1")
    \/ /\ wk["w1"].op # "AddToCart"
       /\ OrderIDsLeft("w2", "u1", MaxOrderID)
       /\ Checkout_CallElsewhere("w2", "u1")
    \/ \E w \in Workers : FillCheckoutStep(w)

SpecCheckouts == Init /\ [][NextCheckouts]_vars

\* The arguments callers of the service pass.
ServiceUsers == {"", "u1"}
QtyArgs == {-1, 0, MaxQty}

\* The steps of a running GetCart.
GetCartStep(w) ==
    \/ GetCart_Query(w)
    \/ Service_GetCart_Prices(w)

\* SpecService: one goroutine calling the store through the service layer, with and
\* without an owner and with valid and invalid quantities and stocks; for owner u2
\* AddToCart is called on the store directly.
NextService ==
    \/ \E u \in ServiceUsers, p \in ProductIDs, q \in QtyArgs : Service_AddToCart("w1", u, p, q)
    \/ \E q \in QtyArgs : AddToCart_Call("w1", "u2", 1, q)
    \/ \E u \in ServiceUsers, p \in ProductIDs : Service_RemoveFromCart("w1", u, p)
    \/ \E u \in ServiceUsers :
          /\ IF UserRequired(u) THEN TRUE ELSE OrderIDsLeft("w1", u, MaxOrderID)
          /\ Service_Checkout("w1", u)
    \/ \E u \in ServiceUsers : Service_GetCart("w1", u)
    \/ \E p \in {1, 3}, n \in StockArgs : Service_UpdateStock("w1", p, n)
    \/ Step("w1")
    \/ GetCartStep("w1")

SpecService == Init /\ [][NextService]_vars

\* ===================================================================== claims
AtRet(w, op) == wk[w].pc = "ret" /\ wk[w].op = op
CartKeyOf(w) == <<wk[w].userID, wk[w].productID>>
CartLines(u) == {p \in ProductIDs : db.cart_items[<<u, p>>] > 0}

\* C1: in every state reachable by interleavings of AddToCart, RemoveFromCart,
\* Checkout and UpdateStock calls of several owners, every product's stock is >= 0
\* (the committed value and every value a transaction has written but not committed).
C1_StockNeverNegative ==
    /\ \A p \in ProductIDs : db.stock[p] >= 0
    /\ \A w \in Workers : \A p \in DOMAIN tx[w].stock : tx[w].stock[p] >= 0

\* C1 witness: two owners have reserved the last units of product 1.
C1_Witness ==
    /\ db.stock[1] = 0
    /\ db.cart_items[<<"u1", 1>>] > 0
    /\ db.cart_items[<<"u2", 1>>] > 0

\* Reservations that have passed the stock check and are not committed yet.
PastStockCheck(p) ==
    {w \in Workers : /\ wk[w].op = "AddToCart"
                     /\ wk[w].productID = p
                     /\ wk[w].pc \in {"add_upsert", "add_update", "add_commit"}}

RECURSIVE SumQty(_)
SumQty(ws) ==
    IF ws = {} THEN 0
    ELSE LET w == CHOOSE x \in ws : TRUE IN wk[w].qty + SumQty(ws \ {w})

\* Two goroutines at their return from AddToCart(_, 1, 3) for different owners, neither
\* hit by a store error, whose owners' lines for product 1 hold only what these two
\* calls reserved, with no unit of product 1 ordered: stock was 5 before them.
TwoReservesOfThree(a, b) ==
    /\ a # b
    /\ wk[a].userID # wk[b].userID
    /\ \A w \in {a, b} :
          /\ AtRet(w, "AddToCart")
          /\ wk[w].productID = 1
          /\ wk[w].qty = 3
          /\ wk[w].res \in {OK, ErrInsufficientStock}
          /\ db.cart_items[<<wk[w].userID, 1>>] = IF wk[w].res = OK THEN 3 ELSE 0
    /\ Ordered(1) = 0

\* C2: the quantities of the concurrent Reserves of a product that have passed the
\* stock check never add up to more than the product's committed stock (the read
\* and the decrement are under the row lock); and of two owners reserving 3 units
\* each against stock 5, exactly one succeeds, the other gets InsufficientStock, and
\* the final stock is 2.
C2_ReservesWithinStock ==
    /\ \A p \in ProductIDs : SumQty(PastStockCheck(p)) <= db.stock[p]
    /\ \A a, b \in Workers :
          TwoReservesOfThree(a, b) =>
             /\ {wk[a].res, wk[b].res} = {OK, ErrInsufficientStock}
             /\ db.stock[1] = 2

\* C2 witness: the two Reserves of 3 against stock 5 have both returned.
C2_Witness ==
    \E a, b \in Workers :
       /\ TwoReservesOfThree(a, b)
       /\ wk[a].res = OK
       /\ wk[b].res = ErrInsufficientStock
       /\ db.stock[1] = 2

C4_InsufficientStockExactlyAndClean ==
    [][\A w \in Workers :
          (wk[w].pc = "add_stock" /\ wk'[w] # wk[w] /\ wk[w].productID \in ProductIDs) =>
             /\ (wk'[w].res = ErrInsufficientStock) =>
                   /\ db.stock[wk[w].productID] < wk[w].qty
                   /\ wk'[w].pc = "ret"
                   /\ db' = db
                   /\ tx'[w] = EmptyTx
             /\ (db.stock[wk[w].productID] < wk[w].qty) =>
                   wk'[w].res \in {ErrInsufficientStock, StoreError}
             /\ (wk'[w].pc = "add_upsert") => db.stock[wk[w].productID] >= wk[w].qty]_vars

\* C4 witness: a Reserve failed with InsufficientStock and its owner, whose cart
\* record the transaction had inserted, has no committed cart record.
C4_Witness ==
    \E w \in Workers :
       /\ AtRet(w, "AddToCart")
       /\ wk[w].res = ErrInsufficientStock
       /\ wk[w].userID \notin db.carts
       /\ tx[w] = EmptyTx

CheckoutBeforeCommit ==
    {"co_query", "co_rows", "co_order", "co_prepare", "co_items", "co_delitems", "co_delcart"}
CheckoutAfterOrderInsert == {"co_prepare", "co_items", "co_delitems", "co_delcart", "co_commit"}

\* C5: a Checkout that fails at any step before the commit (empty cart, or a store
\* error at the query, the order insert, an order-item insert, the cart-item delete
\* or the cart delete) commits nothing: no order or order item of the attempt is or
\* becomes committed (its order id is never handed out again), carts and stocks are
\* as before, nothing of the transaction survives; and with lines in the cart the
\* only failure is a store error, so the retry on the same cart succeeds once the
\* store's statements succeed.
C5_CheckoutFailureIsAtomic ==
    [][/\ orderSeq' >= orderSeq
       /\ \A w \in Workers :
             /\ (wk[w].op = "Checkout" /\ wk[w].pc \in CheckoutAfterOrderInsert) =>
                   /\ wk[w].orderID = orderSeq \/ wk[w].orderID < orderSeq
                   /\ \A o \in db.orders : o.ID # wk[w].orderID
                   /\ \A oi \in db.order_items : oi.OrderID # wk[w].orderID
             /\ (wk[w].op = "Checkout" /\ wk[w].pc \in CheckoutBeforeCommit /\ wk'[w].pc = "ret") =>
                   /\ wk'[w].res \in {ErrCartEmpty, StoreError}
                   /\ db' = db
                   /\ tx'[w] = EmptyTx
                   /\ (wk'[w].res = ErrCartEmpty) => CartLines(wk[w].userID) = {}]_vars

\* C5 witness: a Checkout failed at the statement after the order insert; no order
\* is committed and the owner's cart still holds its lines.
C5_Witness ==
    \E w \in Workers :
       /\ AtRet(w, "Checkout")
       /\ wk[w].res = StoreError
       /\ wk[w].orderID > 0
       /\ wk[w].next = 0
       /\ db.orders = {}
       /\ db.order_items = {}
       /\ CartLines(wk[w].userID) # {}
       /\ wk[w].userID \in db.carts

ItemsOf(d, id) == {oi \in d.order_items : oi.OrderID = id}

\* C8: a committed Order row and its OrderItem rows are never modified or deleted
\* by any later Reserve, Release, Checkout, SetStock or price change.
C8_OrdersAreFrozen ==
    [][\A o \in db.orders :
          /\ o \in db'.orders
          /\ ItemsOf(db', o.ID) = ItemsOf(db, o.ID)]_vars

\* C8 witness: two orders are committed and an order item carries a price that is
\* no longer the product's price.
C8_Witness ==
    /\ Cardinality(db.orders) = 2
    /\ \E oi \in db.order_items : oi.Price # db.price[oi.ProductID]

RECURSIVE CartTotal(_, _)
CartTotal(u, ps) ==
    IF ps = {} THEN 0
    ELSE LET p == CHOOSE x \in ps : TRUE
         IN db.cart_items[<<u, p>>] * db.price[p] + CartTotal(u, ps \ {p})

\* C9: the commit of a successful Checkout adds exactly one Order, with a new id,
\* the owner, and total = sum over the owner's cart lines of quantity x price, and
\* exactly one OrderItem per cart line with the line's product, quantity and price;
\* the order and the items it returns are the rows committed.
C9_OrderMatchesCart ==
    [][\A w \in Workers :
          (wk[w].op = "Checkout" /\ wk[w].pc = "co_commit" /\ wk'[w].res = OK) =>
             LET u == wk[w].userID
                 rows == {[OrderID |-> wk[w].orderID, ProductID |-> p,
                           Quantity |-> db.cart_items[<<u, p>>], Price |-> db.price[p]]
                          : p \in CartLines(u)}
             IN /\ \A o \in db.orders : o.ID # wk[w].orderID
                /\ db'.orders = db.orders \cup {[ID |-> wk[w].orderID, UserID |-> u,
                                                 Total |-> CartTotal(u, CartLines(u))]}
                /\ ItemsOf(db, wk[w].orderID) = {}
                /\ db'.order_items = db.order_items \cup rows
                /\ ReturnedOrder(w)' \in db'.orders
                /\ Len(wk'[w].items) = Cardinality(CartLines(u))
                /\ {OrderItemOf(wk'[w].orderID, wk'[w].items[i]) : i \in 1..Len(wk'[w].items)}
                      = rows]_vars

\* C9 witness: a Checkout of two lines returned, after the price of product 1 changed.
C9_Witness ==
    \E w \in Workers :
       /\ AtRet(w, "Checkout")
       /\ wk[w].res = OK
       /\ Len(wk[w].items) = 2
       /\ wk[w].items[1].Price = 2
       /\ wk[w].items[1].Quantity = 3
       /\ ReturnedOrder(w) \in db.orders
       /\ wk[w].total = 3 * 2 + wk[w].items[2].Quantity * wk[w].items[2].Price

\* C10: a Checkout whose owner has no cart-item rows returns at its query with
\* "cart empty" (or the store's error), rolled back, with no order id drawn and no
\* Order created.
C10_EmptyCart ==
    [][\A w \in Workers :
          (/\ wk[w].op = "Checkout"
           /\ wk[w].pc = "co_query"
           /\ wk'[w] # wk[w]
           /\ CartLines(wk[w].userID) = {}) =>
             /\ wk'[w].pc = "ret"
             /\ wk'[w].res \in {ErrCartEmpty, StoreError}
             /\ db' = db
             /\ tx'[w] = EmptyTx
             /\ orderSeq' = orderSeq]_vars

\* C10 witness: stock 5; Reserve(u1, 1, ..) took it to 2 or less, so Reserve(u2, 1, 3)
\* failed with InsufficientStock; Release(u1, 1) restored stock 5; Checkout(u1)
\* returned "cart empty" and no order exists.
C10_Witness ==
    /\ AtRet("w2", "AddToCart")
    /\ wk["w2"].userID = "u2" /\ wk["w2"].productID = 1 /\ wk["w2"].qty = 3
    /\ wk["w2"].res = ErrInsufficientStock
    /\ AtRet("w1", "Checkout")
    /\ wk["w1"].userID = "u1"
    /\ wk["w1"].res = ErrCartEmpty
    /\ "u1" \in db.carts
    /\ db.stock[1] = 5
    /\ db.orders = {}
    /\ orderSeq = 0

\* Goroutine w is between the Lock and the Unlock of its owner's mutex.
InCriticalSection(w) == wk[w].locked

\* C11: within one process at most one AddToCart / RemoveFromCart / Checkout of an
\* owner is between lock acquisition and lock release: two goroutines working for
\* the same owner never both hold the owner's mutex, so never both have an open
\* transaction, and every open transaction belongs to a goroutine holding the mutex
\* that the registry stores for its owner.
C11_OneOperationPerOwner ==
    /\ \A a, b \in Workers :
          (a # b /\ wk[a].userID = wk[b].userID) =>
             ~(InCriticalSection(a) /\ InCriticalSection(b))
    /\ \A w \in Workers :
          /\ (wk[w].txOpen \/ tx[w] # EmptyTx) => InCriticalSection(w)
          /\ InCriticalSection(w) =>
                /\ wk[w].op \in {"AddToCart", "RemoveFromCart", "Checkout"}
                /\ wk[w].m = locks[wk[w].userID]
                /\ <<wk[w].userID, wk[w].m>> \in held

\* C11 witness: one goroutine is inside its transaction with a row locked while the
\* other, called for the same owner, waits at the owner's mutex.
C11_Witness ==
    \E a, b \in Workers :
       /\ a # b
       /\ wk[a].userID = wk[b].userID
       /\ wk[a].txOpen /\ tx[a].lockP # {}
       /\ wk[b].pc = "mlock"
       /\ ~ENABLED lockForUser_Lock(b)

\* The products an operation in progress touches: the product it was called with, or
\* for a Checkout the products of the owner's cart lines and of the rows it locked.
Touches(w) ==
    IF wk[w].op = "Checkout"
      THEN {p \in ProductIDs : ViewCartItem(w, <<wk[w].userID, p>>) > 0}
              \cup tx[w].lockP \cup {wk[w].todo[i] : i \in 1..Len(wk[w].todo)}
      ELSE {wk[w].productID}

\* w stands at mtx.Lock() and the mutex is taken.
WaitsForMutex(w) == wk[w].pc = "mlock" /\ ~ENABLED lockForUser_Lock(w)

\* The cart_items rows the next DELETE of a Checkout removes.
OwnLines(w) == {k \in CartKeys : k[1] = wk[w].userID /\ ViewCartItem(w, k) > 0}

\* w's next statement needs a row that another open transaction has locked.
WaitsForRow(w) ==
    LET u == wk[w].userID
        p == wk[w].productID
        k == <<u, p>>
    IN CASE wk[w].pc = "add_cart" -> ~CartRowFree(w, u)
         [] wk[w].pc = "add_stock" -> p \in ProductIDs /\ ~SelectStockForUpdate(w, p)
         [] wk[w].pc \in {"add_update", "rm_update"} -> ~ProductRowFree(w, p)
         [] wk[w].pc \in {"add_upsert", "rm_delete"} -> ~CartItemRowFree(w, k)
         [] wk[w].pc = "co_rows" -> \/ ~CartItemRowFree(w, <<u, Head(wk[w].todo)>>)
                                    \/ ~ProductRowFree(w, Head(wk[w].todo))
         [] wk[w].pc = "co_delitems" -> \E r \in OwnLines(w) : ~CartItemRowFree(w, r)
         [] wk[w].pc = "co_delcart" -> \/ ~CartRowFree(w, u)
                                       \/ \E r \in OwnLines(w) : ~CartItemRowFree(w, r)
         [] OTHER -> FALSE

\* o holds a mutex or a row lock.
HoldsLock(o) ==
    wk[o].locked \/ tx[o].lockP # {} \/ tx[o].lockCI # {} \/ tx[o].lockC # {}

\* C12: an operation waits, at the registry or for a row lock, only for a concurrent
\* operation of the same owner or one that touches a product it touches itself; it
\* waits at the registry only for a holder of its own owner's mutex.  Operations of
\* different owners on disjoint products never wait for each other.
C12_DisjointOwnersDoNotBlock ==
    \A w \in Workers :
       /\ (WaitsForMutex(w) \/ WaitsForRow(w)) =>
             \E o \in Workers \ {w} :
                /\ HoldsLock(o)
                /\ wk[o].userID = wk[w].userID \/ Touches(w) \cap Touches(o) # {}
       /\ WaitsForMutex(w) =>
             \E o \in Workers \ {w} : wk[o].locked /\ wk[o].userID = wk[w].userID

\* C12 witness: two owners are inside their transactions at the same time, each
\* holding its mutex and the row lock of a different product, and neither waits.
C12_Witness ==
    /\ wk["w1"].userID # wk["w2"].userID
    /\ wk["w1"].locked /\ wk["w2"].locked
    /\ tx["w1"].lockP = {2}
    /\ tx["w2"].lockP = {1}
    /\ \A w \in Workers : ~WaitsForMutex(w) /\ ~WaitsForRow(w)

\* The goroutines whose transaction is open.
OpenTransactions == {w \in Workers : wk[w].txOpen}

\* C13: concurrent Reserve, Release and Checkout transactions of different owners
\* over overlapping products never reach a circular wait on row locks: no two
\* transactions wait for a row of each other, so whenever transactions are open one
\* of them is not waiting and can go on to its commit or rollback, which releases
\* the rows the others wait for.
C13_NoCircularRowWait ==
    /\ \A a, b \in Workers : a # b => ~(WaitsForRow(a) /\ WaitsForRow(b))
    /\ OpenTransactions # {} => \E w \in OpenTransactions : ~WaitsForRow(w)

\* C13 witness: two Checkouts of carts holding both products; one has locked its
\* lines in ascending order, the other waits for the first of its lines.
C13_Witness ==
    /\ wk["w1"].op = "Checkout" /\ wk["w2"].op = "Checkout"
    /\ tx["w1"].lockP = {1, 2}
    /\ wk["w2"].pc = "co_rows"
    /\ wk["w2"].todo = <<1, 2>>
    /\ WaitsForRow("w2")
    /\ ~WaitsForRow("w1")

\* C14: Release reads the owner's cart-item quantity under a row lock on the
\* cart-item row, so the quantity a committing Release adds back to the product's
\* stock is the quantity of the row it deletes, in every interleaving, also when a
\* Reserve for the same owner and product runs in another process.
C14_ReleaseRestoresDeletedQuantity ==
    [][\A w \in Workers :
          (wk[w].op = "RemoveFromCart" /\ wk[w].pc = "rm_commit" /\ wk'[w].res = OK) =>
             /\ db'.cart_items[CartKeyOf(w)] = 0
             /\ db'.stock[wk[w].productID] - db.stock[wk[w].productID]
                   = db.cart_items[CartKeyOf(w)]]_vars

\* C15: a Reserve with a non-positive quantity, through the service or on the store
\* directly, returns an invalid-argument error before any I/O: the call goes straight
\* to its return with no mutex taken, no transaction begun and no statement run, the
\* registry, the locks and the database are as before, and they still are when the
\* call has returned.
C15_NonPositiveQuantityRejected ==
    [][\A w \in Workers :
          /\ (wk[w].pc = "idle" /\ wk'[w].op = "AddToCart" /\ wk'[w].qty <= 0) =>
                /\ wk'[w].pc = "ret"
                /\ wk'[w].res = IF UserRequired(wk'[w].userID) THEN ErrUserRequired
                                                               ELSE ErrInvalidQty
                /\ ~wk'[w].locked /\ ~wk'[w].txOpen
                /\ UNCHANGED <<db, tx, locks, held, orderSeq>>
          /\ (wk[w].op = "AddToCart" /\ wk[w].qty <= 0 /\ wk'[w] # wk[w]) =>
                /\ wk[w].pc = "ret"
                /\ wk'[w].pc = "idle"
                /\ UNCHANGED <<db, tx, locks, held, orderSeq>>]_vars

\* C15 witness: AddToCart called with a negative quantity for an owner has returned
\* "quantity must be > 0"; the owner has no mutex in the registry and no cart.
C15_Witness ==
    \E w \in Workers :
       /\ AtRet(w, "AddToCart")
       /\ wk[w].qty < 0
       /\ wk[w].userID = "u1"
       /\ wk[w].res = ErrInvalidQty
       /\ locks["u1"] = 0
       /\ "u1" \notin db.carts
       /\ tx[w] = EmptyTx

\* ------------------------------------------------------------------------ C16
\* C16: UpdateStock with a negative newStock returns "stock cannot be negative" and
\* writes nothing; with newStock >= 0 and no product row it returns sql.ErrNoRows
\* (or the driver's error) and writes nothing; every call that returns nil was for
\* an existing product and sets that product's stock to exactly newStock, leaving
\* every other column and row as it was; every failing call writes nothing.
C16_UpdateStockCall(w) == wk[w].pc = "idle" /\ wk'[w].op = "UpdateStock"

C16_SetStockOutcomes ==
    [][\A w \in Workers :
          C16_UpdateStockCall(w) =>
             LET p == wk'[w].productID
                 n == wk'[w].newStock
                 res == wk'[w].res
             IN /\ wk'[w].pc = "ret"
                /\ n < 0 => res = ErrNegativeStock
                /\ (n >= 0 /\ p \notin ProductIDs) => res \in {ErrNoRows, StoreError}
                /\ res = ErrNoRows => (n >= 0 /\ p \notin ProductIDs)
                /\ res # OK => db' = db
                /\ res = OK =>
                      /\ n >= 0
                      /\ p \in ProductIDs
                      /\ db'.stock[p] = n
                      /\ db' = [db EXCEPT !.stock[p] = n]
                /\ UNCHANGED <<tx, locks, held, orderSeq>>]_vars

\* Stock set to zero while units of the product are reserved in a cart, after a
\* negative value and a missing product were refused.
C16_Witness ==
    /\ AtRet("w1", "UpdateStock")
    /\ wk["w1"].res = OK
    /\ wk["w1"].newStock = 0
    /\ db.stock[1] = 0
    /\ Reserved(1) > 0

\* ------------------------------------------------------------------------ C17
\* The statements at which a handler calls tx.Commit().
CommitPcs == {"add_commit", "rm_commit", "co_commit"}

\* C17: a transaction begun by AddToCart, RemoveFromCart or Checkout is ended before
\* the handler returns: at the return it is no longer open, holds no row lock and
\* has no pending write.  It ends at tx.Commit() or at the tx.Rollback() of an error
\* branch; an error branch leaves the committed rows as they were and returns an
\* error; a nil return comes only from a successful Commit, which publishes exactly
\* the transaction's writes; and Commit is never reached by a transaction in which
\* a statement has failed.
C17_TransactionEndsBeforeReturn ==
    [][\A w \in Workers :
          /\ wk'[w].pc = "ret" => (~wk'[w].txOpen /\ tx'[w] = EmptyTx)
          /\ wk[w].pc \in CommitPcs => (wk[w].txOpen /\ ~wk[w].aborted)
          /\ (wk[w].txOpen /\ ~wk'[w].txOpen) =>
                /\ wk'[w].pc = "ret"
                /\ wk'[w].rolledBack
                /\ wk[w].pc \notin CommitPcs => (wk'[w].res # OK /\ db' = db)
                /\ wk'[w].res = OK => (wk[w].pc \in CommitPcs /\ db' = Apply(db, tx[w]))
          /\ (wk[w].txOpen /\ wk'[w].txOpen) =>
                (wk'[w].pc # "ret" /\ (wk'[w] # wk[w] => db' = db))]_vars

\* A Checkout whose rows loop ended on an error that the handler did not see
\* (rows.Err() is not read): the next statement failed, the handler rolled back and
\* returned the error, and no order exists.
C17_Witness ==
    /\ AtRet("w1", "Checkout")
    /\ wk["w1"].aborted
    /\ wk["w1"].res = StoreError
    /\ Len(wk["w1"].items) >= 1
    /\ wk["w1"].rolledBack
    /\ tx["w1"] = EmptyTx
    /\ db.orders = {}
    /\ db.cart_items[<<"u1", 1>>] > 0

\* ------------------------------------------------------------------------ C18
\* The rows loop of Checkout run by w is at a line that asks for more units than
\* the product has in stock.
C18_LineExceedsStock(w) ==
    /\ wk[w].pc = "co_rows"
    /\ wk'[w] # wk[w]
    /\ ViewCartItem(w, <<wk[w].userID, Head(wk[w].todo)>>) > ViewStock(w, Head(wk[w].todo))

C19_ItemRows(w) ==
    {OrderItemOf(wk[w].orderID, wk[w].items[i]) : i \in 1..Len(wk[w].items)}

\* The Checkout run by w commits and returns nil.
C19_CheckoutSucceeds(w) ==
    wk[w].op = "Checkout" /\ wk[w].pc = "co_commit" /\ wk'[w].pc = "ret" /\ wk'[w].res = OK

C20_OwnerOps == {"AddToCart", "RemoveFromCart", "GetCart", "Checkout"}

\* What the store's handlers return.
C20_StoreResults == {OK, ErrInvalidQty, ErrInsufficientStock, ErrNoRows, ErrCartEmpty, StoreError}

\* C20: a service call of AddToCart, RemoveFromCart, GetCart or Checkout with the
\* empty owner id returns "user_id required" at once: the store is not called, and
\* registry, mutexes, transactions and database are unchanged by the call and by
\* its return.  With a non-empty owner (and, for AddToCart, a positive quantity)
\* the call goes on into the store's handler, and whatever the store's handler
\* returns is what the service returns; the only error the service adds is
\* GetCart's "product not found".
C20_ServiceOwnerCheck ==
    [][\A w \in Workers :
          /\ (wk[w].pc = "idle" /\ wk'[w].op \in C20_OwnerOps /\ wk'[w].userID = "") =>
                /\ wk'[w].pc = "ret"
                /\ wk'[w].res = ErrUserRequired
                /\ ~wk'[w].locked /\ ~wk'[w].txOpen
                /\ UNCHANGED <<db, tx, locks, held, orderSeq>>
          /\ (wk[w].pc = "ret" /\ wk[w].res = ErrUserRequired /\ wk'[w] # wk[w]) =>
                UNCHANGED <<db, tx, locks, held, orderSeq>>
          /\ (wk[w].pc = "idle" /\ wk'[w].op \in C20_OwnerOps /\ wk'[w].userID # "") =>
                /\ wk'[w].res # ErrUserRequired
                /\ (wk'[w].op = "AddToCart" /\ wk'[w].qty <= 0) =>
                      (wk'[w].pc = "ret" /\ wk'[w].res = ErrInvalidQty)
                /\ (wk'[w].op = "AddToCart" /\ wk'[w].qty > 0) =>
                      wk'[w].pc \in {"loadOrStore", "mlock"}
                /\ wk'[w].op \in {"RemoveFromCart", "Checkout"} =>
                      wk'[w].pc \in {"loadOrStore", "mlock"}
                /\ wk'[w].op = "GetCart" => wk'[w].pc = "gc_rows"
          /\ (wk[w].op \in C20_OwnerOps /\ wk[w].pc \notin {"idle", "ret"} /\ wk'[w].pc = "ret") =>
                /\ wk[w].userID # ""
                /\ ServiceReturns(wk'[w].res) = wk'[w].res
                /\ IF wk[w].pc = "gc_products"
                     THEN wk'[w].res \in {OK, StoreError, ErrProductNotFound}
                     ELSE wk'[w].res \in C20_StoreResults]_vars

\* A Checkout with the empty owner id has been refused while the cart that an
\* earlier, forwarded AddToCart of u1 filled is still there.
C20_Witness ==
    /\ AtRet("w1", "Checkout")
    /\ wk["w1"].userID = ""
    /\ wk["w1"].res = ErrUserRequired
    /\ db.cart_items[<<"u1", 1>>] = MaxQty
    /\ db.stock[1] = SeedStock[1] - MaxQty
    /\ held = {}
    /\ db.orders = {}

\* ------------------------------------------------------------------------ C21
\* C21: no step of GetCart changes stock, carts, orders, locks or transactions; a
\* GetCart that returns nil returns one item per cart-item row of the owner, with
\* the row's quantity and the product's price, and the total of price x quantity
\* over the owner's rows.
C21_GetCartListsCart ==
    [][\A w \in Workers :
          (wk[w].op = "GetCart" /\ wk'[w] # wk[w]) =>
             /\ UNCHANGED <<db, tx, locks, held, orderSeq>>
             /\ (wk'[w].pc = "ret" /\ wk'[w].res = OK) =>
                   LET u == wk[w].userID
                       items == wk'[w].items
                   IN /\ Len(items) = Cardinality(CartLines(u))
                      /\ {items[i].ProductID : i \in 1..Len(items)} = CartLines(u)
                      /\ \A i \in 1..Len(items) :
                            /\ items[i].Quantity = db.cart_items[<<u, items[i].ProductID>>]
                            /\ items[i].Price = db.price[items[i].ProductID]
                      /\ wk'[w].total = CartTotal(u, CartLines(u))]_vars

\* ------------------------------------------------------------------------ C22
\* The products whose stock differs between the committed states d and e, and the
\* cart-item rows whose quantity differs.
C22_StockWritten(d, e) == {p \in ProductIDs : d.stock[p] # e.stock[p]}
C22_CartItemsWritten(d, e) == {k \in CartKeys : d.cart_items[k] # e.cart_items[k]}

C24_ReleaseCommitsExactly ==
    [][\A w \in Workers :
          (wk[w].op = "RemoveFromCart" /\ wk'[w] # wk[w]) =>
             IF wk[w].pc = "rm_commit" /\ wk'[w].res = OK
               THEN LET k == CartKeyOf(w)
                        p == wk[w].productID
                    IN /\ db.cart_items[k] > 0
                       /\ db' = [db EXCEPT !.cart_items[k] = 0,
                                           !.stock[p] = @ + db.cart_items[k]]
               ELSE wk[w].pc # "rm_commit" => db' = db]_vars

\* ------------------------------------------------------------------------ C25
\* The committed cart of owner u: the cart record and the lines.
C25_CartOf(d, u) ==
    [record |-> u \in d.carts, lines |-> [p \in ProductIDs |-> d.cart_items[<<u, p>>]]]

C25_NoCart == [record |-> FALSE, lines |-> [p \in ProductIDs |-> 0]]

\* C25: the commit of a successful Checkout leaves the owner without cart lines
\* and without cart record and leaves every other owner's cart as it was; lines of
\* an owner appear only at the commit of an AddToCart of that owner; and a Checkout
\* whose query finds the owner without lines returns "cart empty" (or the store's
\* error), draws no order id and leaves orders and order items as they are.  So a
\* Checkout that directly follows a successful Checkout of the owner fails with
\* EmptyCart and there is no second order.
C25_CheckoutTwice ==
    [][/\ \A w \in Workers :
             /\ (wk[w].op = "Checkout" /\ wk[w].pc = "co_commit" /\ wk'[w].res = OK) =>
                   /\ C25_CartOf(db', wk[w].userID) = C25_NoCart
                   /\ \A u \in Users \ {wk[w].userID} : C25_CartOf(db', u) = C25_CartOf(db, u)
             /\ (/\ wk[w].op = "Checkout"
                 /\ wk[w].pc = "co_query"
                 /\ wk'[w] # wk[w]
                 /\ C25_CartOf(db, wk[w].userID).lines = C25_NoCart.lines) =>
                   /\ wk'[w].pc = "ret"
                   /\ wk'[w].res \in {ErrCartEmpty, StoreError}
                   /\ UNCHANGED <<db, orderSeq>>
       /\ \A u \in Users :
             (C25_CartOf(db, u).lines = C25_NoCart.lines /\ C25_CartOf(db', u) # C25_CartOf(db, u)) =>
                \E w \in Workers : /\ wk[w].op = "AddToCart"
                                   /\ wk[w].pc = "add_commit"
                                   /\ wk[w].userID = u]_vars

\* The owner's first Checkout succeeded and the next one has returned "cart
\* empty": one order, one order id drawn, no cart, and the other owner's cart is
\* still there.
C25_Witness ==
    /\ AtRet("w1", "Checkout")
    /\ wk["w1"].res = ErrCartEmpty
    /\ Cardinality({o \in db.orders : o.UserID = "u1"}) = 1
    /\ orderSeq = 1
    /\ C25_CartOf(db, "u1") = C25_NoCart
    /\ "u2" \in db.carts
    /\ db.cart_items[<<"u2", 1>>] > 0

\* ------------------------------------------------------------------------ C26
\* The statements of AddToCart and RemoveFromCart between Begin and Commit.
C26_Statements ==
    {"add_cart", "add_stock", "add_upsert", "add_update", "rm_select", "rm_delete", "rm_update"}

\* C26: no statement of a Reserve or Release before the commit changes a committed
\* row; a statement that fails ends the call with an error, with every pending
\* write of the transaction dropped, so committed stock, cart items and cart
\* records are what they were; a call returns nil only from its commit; and when
\* the commit itself fails the committed state is either unchanged or has all of
\* the transaction's writes.
C26_FailureBeforeCommitChangesNothing ==
    [][\A w \in Workers :
          (wk[w].op \in {"AddToCart", "RemoveFromCart"} /\ wk'[w] # wk[w]) =>
             /\ wk[w].pc \in C26_Statements =>
                   /\ db' = db
                   /\ wk'[w].pc = "ret" =>
                         /\ wk'[w].res \in {StoreError, ErrNoRows, ErrInsufficientStock}
                         /\ tx'[w] = EmptyTx
                         /\ ~wk'[w].txOpen
             /\ wk[w].pc = "begin" => (db' = db /\ tx'[w] = EmptyTx)
             /\ (wk[w].pc \in CommitPcs /\ wk'[w].res # OK) =>
                   /\ wk'[w].res = StoreError
                   /\ db' \in {db, Apply(db, tx[w])}
                   /\ tx'[w] = EmptyTx]_vars

\* A Reserve that had read the stock under the row lock has returned the store's
\* error: no cart record, no line, stock as seeded.
C26_Witness ==
    /\ AtRet("w1", "AddToCart")
    /\ wk["w1"].res = StoreError
    /\ wk["w1"].productID = 1
    /\ wk["w1"].stock = SeedStock[1]
    /\ wk["w1"].rolledBack
    /\ db.stock = SeedStock
    /\ db.carts = {}
    /\ \A k \in CartKeys : db.cart_items[k] = 0

\* ------------------------------------------------------------------------ C27
\* C27: a handler that returns leaves the mutex it locked unlocked, whatever it
\* returns; a goroutine that waits in Lock for its owner's mutex eventually holds
\* it, every goroutine holding the mutex eventually reaches its return, and every
\* goroutine at its return eventually has returned.
C27_LockReleasedAndAcquired ==
    /\ [][\A w \in Workers :
             (wk[w].pc = "ret" /\ wk'[w].pc = "idle" /\ wk[w].locked) =>
                (<<wk[w].userID, wk[w].m>> \in held /\ <<wk[w].userID, wk[w].m>> \notin held')]_vars
    /\ \A w \in Workers :
          /\ (wk[w].pc = "mlock") ~> wk[w].locked
          /\ wk[w].locked ~> (wk[w].pc = "ret")
          /\ (wk[w].pc = "ret") ~> (wk[w].pc = "idle")

\* One goroutine is at its return after s.DB.Begin() failed, still holding the
\* owner's mutex, while the other waits in Lock for the same mutex.
C27_Witness ==
    /\ wk["w1"].pc = "ret"
    /\ wk["w1"].locked
    /\ wk["w1"].res = StoreError
    /\ ~wk["w1"].rolledBack
    /\ wk["w2"].pc = "mlock"
    /\ wk["w2"].userID = wk["w1"].userID
    /\ <<wk["w2"].userID, wk["w2"].m>> \in held

\* ------------------------------------------------------------------------ C28
\* C28: an entry of the registry, once stored, is never removed or replaced; every
\* goroutine that goes on to Lock, and every goroutine between Lock and Unlock,
\* works on the mutex the registry stores for its owner, also when several of them
\* missed in Load and went through LoadOrStore; and no two goroutines of an owner
\* are between Lock and Unlock at once.
C28_OneMutexPerOwner ==
    [][/\ \A u \in Users : locks[u] # 0 => locks'[u] = locks[u]
       /\ \A w \in Workers :
             (wk'[w].pc = "mlock" \/ wk'[w].locked) =>
                /\ locks'[wk'[w].userID] # 0
                /\ wk'[w].m = locks'[wk'[w].userID]
       /\ \A mtx \in held' : mtx[2] = locks'[mtx[1]]
       /\ \A a, b \in Workers :
             (a # b /\ wk'[a].userID = wk'[b].userID) => ~(wk'[a].locked /\ wk'[b].locked)]_vars

\* Both goroutines are in the owner's first acquisition at once: the owner's entry
\* has been stored, both are about to lock that one mutex, neither holds it yet, and
\* nobody has held it before.
C28_Witness ==
    /\ wk["w1"].pc = "mlock"
    /\ wk["w2"].pc = "mlock"
    /\ wk["w1"].userID = wk["w2"].userID
    /\ locks[wk["w1"].userID] # 0
    /\ wk["w1"].m = locks[wk["w1"].userID]
    /\ wk["w2"].m = locks[wk["w1"].userID]
    /\ held = {}
    /\ orderSeq = 0
    /\ db.carts = {}

\* ------------------------------------------------------------------------ C29
\* C29: a goroutine whose transaction is open (begun and neither committed nor
\* rolled back), or that holds a row lock or a pending write, holds the mutex the
\* registry stores for its owner: the mutex is locked before Begin and unlocked
\* after the transaction has ended.  While an owner's mutex is free no goroutine has
\* a transaction open for that owner.
C29_TransactionInsideLock ==
    /\ \A w \in Workers :
          (wk[w].txOpen \/ tx[w] # EmptyTx \/ wk[w].pc = "begin") =>
             /\ wk[w].locked
             /\ wk[w].m = locks[wk[w].userID]
             /\ <<wk[w].userID, wk[w].m>> \in held
    /\ \A w \in Workers :
          (wk[w].pc \in {"idle", "loadOrStore", "mlock"}) => (~wk[w].txOpen /\ ~wk[w].locked)
    /\ \A u \in Users :
          <<u, locks[u]>> \notin held =>
             \A w \in Workers : wk[w].userID = u => (~wk[w].txOpen /\ tx[w] = EmptyTx)

\* A Checkout with its order written and its commit ahead holds the owner's mutex
\* while the other goroutine of the owner waits in Lock.
C29_Witness ==
    /\ wk["w1"].op = "Checkout"
    /\ wk["w1"].pc = "co_commit"
    /\ wk["w1"].txOpen
    /\ tx["w1"].orders # {}
    /\ held = {<<"u1", locks["u1"]>>}
    /\ wk["w2"].pc = "mlock"
    /\ wk["w2"].userID = "u1"

\* ------------------------------------------------------------------------ C30
\* The units of product p in the committed state d: in stock, in cart-item rows,
\* in order-item rows.
RECURSIVE C30_InCarts(_, _, _)
C30_InCarts(d, us, p) ==
    IF us = {} THEN 0
    ELSE LET u == CHOOSE x \in us : TRUE
         IN d.cart_items[<<u, p>>] + C30_InCarts(d, us \ {u}, p)

C30_InOrders(d, p) == SumQuantity({oi \in d.order_items : oi.ProductID = p})

C30_Units(d, p) == d.stock[p] + C30_InCarts(d, Users, p) + C30_InOrders(d, p)

\* C30: no step of any interleaving of AddToCart, RemoveFromCart and Checkout calls
\* of one process changes, for any product, the sum of the units in stock, in cart
\* items and in order items; a step that lowers the stock raises the cart items by
\* as much, a step that raises the stock lowers the cart items by as much, a step
\* that adds order items lowers the cart items by as much and leaves the stock, and
\* order items never go away.
C30_UnitsConserved ==
    [][\A p \in ProductIDs :
          LET dStock == db'.stock[p] - db.stock[p]
              dCarts == C30_InCarts(db', Users, p) - C30_InCarts(db, Users, p)
              dOrders == C30_InOrders(db', p) - C30_InOrders(db, p)
          IN /\ C30_Units(db', p) = C30_Units(db, p)
             /\ C30_Units(db', p) = SeedStock[p]
             /\ dOrders >= 0
             /\ dStock # 0 => (dCarts = -dStock /\ dOrders = 0)
             /\ dOrders > 0 => (dCarts = -dOrders /\ dStock = 0)]_vars

\* Units of product 1 are in all three places at once: some in stock, some in a
\* cart, some in an order.
C30_Witness ==
    /\ db.stock[1] > 0
    /\ C30_InCarts(db, Users, 1) > 0
    /\ C30_InOrders(db, 1) > 0
    /\ C30_Units(db, 1) = SeedStock[1]
    /\ \A w \in Workers : wk[w].pc = "idle"

\* ------------------------------------------------------------------------ C31
\* The rows of table cart_items in the committed state d.  The table's primary key
\* (cart_id, product_id) is the domain of d.cart_items; a key without a row has 0.
C31_CartItemRows(d) ==
    {[cart_id |-> k[1], product_id |-> k[2], quantity |-> d.cart_items[k]] :
        k \in {x \in CartKeys : d.cart_items[x] # 0}}

\* C31: in every committed state no two cart-item rows have the same owner and
\* product, every cart-item row has a quantity > 0, and the owner of every
\* cart-item row has a cart record; the same holds for the rows as every open
\* transaction sees them, so for whatever it commits.
C31_CartItemRowsWellFormed ==
    /\ \A r, s \in C31_CartItemRows(db) :
          (r.cart_id = s.cart_id /\ r.product_id = s.product_id) => r = s
    /\ \A r \in C31_CartItemRows(db) :
          /\ r.quantity > 0
          /\ r.cart_id \in db.carts
    /\ \A w \in Workers :
          \A r \in C31_CartItemRows(Apply(db, tx[w])) :
             /\ r.quantity > 0
             /\ r.cart_id \in Apply(db, tx[w]).carts

\* One owner holds a line that two Reserves built up, the other owner has released
\* the only line and keeps an empty cart record.
C31_Witness ==
    /\ db.cart_items[<<"u1", 1>>] > MaxQty
    /\ "u1" \in db.carts
    /\ "u2" \in db.carts
    /\ \A p \in ProductIDs : db.cart_items[<<"u2", p>>] = 0
    /\ Cardinality(C31_CartItemRows(db)) = 1
    /\ \A w \in Workers : wk[w].pc = "idle"

\* ------------------------------------------------------------------------ C32
\* The committed store e is what a Reserve(u, p, q) of an owner without a line for
\* the product makes of the committed store d: the cart record exists, the line
\* holds q, the stock is q less, and nothing else differs.
C32_ReserveFromNoLine(d, e, u, p, q) ==
    /\ q > 0
    /\ d.cart_items[<<u, p>>] = 0
    /\ e = [d EXCEPT !.carts = @ \cup {u},
                     !.cart_items[<<u, p>>] = q,
                     !.stock[p] = @ - q]

\* C32: Release undoes Reserve.  The commit of a successful Reserve(owner, product,
\* q) of an owner without a line for the product takes the store from d to the
\* store with the line q and q less stock, and the commit of a successful Release
\* of a line of quantity q takes the store back along the same relation: the store
\* after the Release, given the owner's cart record, is a store in which the owner
\* has no line for the product and from which that Reserve leads to the store
\* before the Release.  So Reserve then Release restores every stock and every
\* cart-item row; only the owner's cart record may remain.
C32_ReleaseUndoesReserve ==
    [][\A w \in Workers :
          /\ (/\ wk[w].op = "AddToCart"
              /\ wk[w].pc = "add_commit"
              /\ wk'[w].res = OK
              /\ db.cart_items[CartKeyOf(w)] = 0) =>
                C32_ReserveFromNoLine(db, db', wk[w].userID, wk[w].productID, wk[w].qty)
          /\ (/\ wk[w].op = "RemoveFromCart"
              /\ wk[w].pc = "rm_commit"
              /\ wk'[w].res = OK) =>
                /\ wk[w].userID \in db'.carts
                /\ C32_ReserveFromNoLine(db', db, wk[w].userID, wk[w].productID,
                                         db.cart_items[CartKeyOf(w)])]_vars

\* Reserve and Release of product 1 have both committed and nothing else ever has:
\* the Release has returned ok, no owner has a line, nothing was ordered, both
\* stocks are at their seed values, and the owner's empty cart record remains.
C32_Witness ==
    \E w \in Workers :
       /\ AtRet(w, "RemoveFromCart")
       /\ wk[w].res = OK
       /\ wk[w].productID = 1
       /\ wk[w].qty = MaxQty
       /\ db.stock = SeedStock
       /\ \A k \in CartKeys : db.cart_items[k] = 0
       /\ db.carts = {wk[w].userID}
       /\ db.orders = {}
       /\ orderSeq = 0

\* ------------------------------------------------------------------------ C33
\* The committed cart lines of owner u, as the order_items rows that order id makes
\* of them.
C33_LinesAsItems(d, u, id) ==
    {[OrderID |-> id, ProductID |-> p, Quantity |-> d.cart_items[<<u, p>>], Price |-> d.price[p]] :
        p \in {x \in ProductIDs : d.cart_items[<<u, x>>] > 0}}

\* Another Checkout of the same owner is running beside w.
C33_OtherCheckouts(w) ==
    {o \in Workers \ {w} : /\ wk[o].op = "Checkout"
                           /\ wk[o].userID = wk[w].userID
                           /\ wk[o].pc \notin {"idle", "ret"}}

\* C33: of two Checkouts of the same owner that run at once, one takes the cart.
\* The commit of a successful Checkout adds one order, copies into it exactly the
\* owner's lines as they are committed at that moment (there is at least one) and
\* deletes them in the same step, and every other running Checkout of the owner
\* has read no line by then; order items are added at no other step; and a
\* Checkout whose query ends while the owner has no committed line returns "cart
\* empty" (or the store's error).  So no line is copied into two orders.
C33_OneCheckoutTakesTheCart ==
    [][/\ \A w \in Workers :
             /\ (wk[w].op = "Checkout" /\ wk[w].pc = "co_commit" /\ wk'[w].res = OK) =>
                   LET u == wk[w].userID IN
                   /\ C33_LinesAsItems(db, u, wk[w].orderID) # {}
                   /\ ReturnedOrder(w) \notin db.orders
                   /\ db'.orders = db.orders \cup {ReturnedOrder(w)}
                   /\ db'.order_items = db.order_items \cup C33_LinesAsItems(db, u, wk[w].orderID)
                   /\ db.order_items \cap C33_LinesAsItems(db, u, wk[w].orderID) = {}
                   /\ \A p \in ProductIDs : db'.cart_items[<<u, p>>] = 0
                   /\ \A o \in C33_OtherCheckouts(w) : wk[o].items = <<>>
             /\ (/\ wk[w].op = "Checkout"
                 /\ wk[w].pc \in {"co_query", "co_rows"}
                 /\ wk'[w] # wk[w]
                 /\ wk[w].items = <<>>
                 /\ \A p \in ProductIDs : db.cart_items[<<wk[w].userID, p>>] = 0) =>
                   /\ wk'[w].pc \in {"co_rows", "ret"}
                   /\ wk'[w].items = <<>>
                   /\ wk'[w].pc = "ret" => wk'[w].res \in {ErrCartEmpty, StoreError}
                   /\ UNCHANGED <<db, orderSeq>>
       /\ (db'.order_items # db.order_items \/ db'.orders # db.orders) =>
             \E w \in Workers : wk[w].op = "Checkout" /\ wk[w].pc = "co_commit"]_vars

\* Both Checkouts of the owner have returned: w1 committed the one order, with
\* both lines of the cart; w2, whose query had started on these lines before they
\* were deleted, found none left after waiting for the row locks and returned
\* "cart empty".
C33_Witness ==
    /\ AtRet("w1", "Checkout")
    /\ wk["w1"].res = OK
    /\ Len(wk["w1"].items) = 2
    /\ AtRet("w2", "Checkout")
    /\ wk["w2"].res = ErrCartEmpty
    /\ wk["w2"].todo # <<>>
    /\ db.orders = {ReturnedOrder("w1")}
    /\ Cardinality(db.order_items) = 2
    /\ \A k \in CartKeys : db.cart_items[k] = 0
    /\ orderSeq = 1

\* ------------------------------------------------------------------------ C34
\* Reserve a and Release b of the same owner and product wait for each other: a
\* holds the product row (SELECT ... FOR UPDATE) and its upsert waits for the
\* cart-item row, b holds the cart-item row (DELETE) and its UPDATE waits for the
\* product row.
C34_WaitForEachOther(a, b) ==
    /\ wk[a].op = "AddToCart" /\ wk[b].op = "RemoveFromCart"
    /\ CartKeyOf(a) = CartKeyOf(b)
    /\ wk[a].pc = "add_upsert"
    /\ wk[a].productID \in tx[a].lockP
    /\ ~CartItemRowFree(a, CartKeyOf(a))
    /\ wk[b].pc = "rm_update"
    /\ CartKeyOf(b) \in tx[b].lockCI
    /\ ~ProductRowFree(b, wk[b].productID)

\* C34: a Reserve and a Release of the same owner and product that run in two
\* processes never wait for each other's row locks: there is no state in which the
\* Reserve holds the product row and waits for the cart-item row while the Release
\* holds the cart-item row and waits for the product row.
C34_ReserveReleaseNeverDeadlock ==
    \A a, b \in Workers : ~C34_WaitForEachOther(a, b)

\* ------------------------------------------------------------------------ C35
\* Goroutine a has returned from a successful UpdateStock(p, n) and the stock of p
\* is still n.
C35_StockJustSet(a, p) ==
    /\ AtRet(a, "UpdateStock")
    /\ wk[a].res = OK
    /\ wk[a].productID = p
    /\ db.stock[p] = wk[a].newStock

\* C35: a successful UpdateStock(p, n) changes the stock of p and nothing else in
\* the store: every cart line (reservations of p included), every cart record,
\* every order and order item, every price and every other stock is as before, and
\* no open transaction is touched.  The commit of a successful Release of a line of
\* quantity q of p, made while the stock of p is still the n that an UpdateStock
\* has set, raises the stock to n + q.
C35_SetStockFrame ==
    [][/\ \A w \in Workers :
             (wk[w].pc = "idle" /\ wk'[w].op = "UpdateStock" /\ wk'[w].res = OK) =>
                /\ wk'[w].productID \in ProductIDs
                /\ db'.stock[wk'[w].productID] = wk'[w].newStock
                /\ \A p \in ProductIDs \ {wk'[w].productID} : db'.stock[p] = db.stock[p]
                /\ db'.cart_items = db.cart_items
                /\ db'.carts = db.carts
                /\ db'.orders = db.orders
                /\ db'.order_items = db.order_items
                /\ db'.price = db.price
                /\ tx' = tx
       /\ \A a, r \in Workers :
             (/\ wk[r].op = "RemoveFromCart"
              /\ wk[r].pc = "rm_commit"
              /\ wk'[r].res = OK
              /\ C35_StockJustSet(a, wk[r].productID)) =>
                /\ db.cart_items[CartKeyOf(r)] > 0
                /\ db'.stock[wk[r].productID] = wk[a].newStock + db.cart_items[CartKeyOf(r)]]_vars

\* The stock of product 1 was set to 0 while owner u2 held MaxQty units of it in
\* the cart, and the owner's Release has then committed: the line is gone, nothing
\* is reserved or ordered, and the stock is 0 + MaxQty.
C35_Witness ==
    /\ AtRet("w1", "UpdateStock")
    /\ wk["w1"].res = OK
    /\ wk["w1"].productID = 1
    /\ wk["w1"].newStock = 0
    /\ AtRet("w2", "RemoveFromCart")
    /\ wk["w2"].res = OK
    /\ wk["w2"].productID = 1
    /\ wk["w2"].qty = MaxQty
    /\ db.stock[1] = MaxQty
    /\ Reserved(1) = 0
    /\ db.orders = {}

====
